---- MODULE Spec2Model ----
(***************************************************************************)
(* Finance store of PengeluaraGW (src/unnamed/part_001, financeStore):     *)
(* a zustand store that wraps a SQLite database.  The model keeps the      *)
(* durable tables, the in-memory cache published with set(), and one       *)
(* record per action in flight.  Every `await db....` of the source is one *)
(* step: the statement runs (or fails) and the continuation runs up to the *)
(* next await.  An action that awaits another function of the store        *)
(* resumes in a step of its own, after that function has returned.         *)
(***************************************************************************)
EXTENDS Integers, Sequences, FiniteSets, TLC

VARIABLES
    dbCategories,        \* table categories: set of rows
    dbTransactions,      \* table transactions: set of rows
    dbSplitBills,        \* table split_bills: set of rows
    dbSplitBillMembers,  \* table split_bill_members: set of rows
    nextId,              \* next generated row id of each table
    transactions,        \* FinanceState.transactions
    categories,          \* FinanceState.categories
    splitBills,          \* FinanceState.splitBills
    balance,             \* FinanceState.balance
    totalMonth,          \* FinanceState.totalMonth
    totalIncome,         \* FinanceState.totalIncome
    totalExpense,        \* FinanceState.totalExpense
    isLoading,           \* FinanceState.isLoading
    now,                 \* year-month of the device clock (new Date())
    proc,                \* the actions in flight, one record per caller
    calls,               \* number of store actions called so far
    lastSummary,         \* history: the summary published last, if nothing ran since
    modal,               \* SmartTextModal: its useState values and handleParse's position
    screen               \* AddTransactionScreen: its useState values and handleSubmit's position

dbVars  == <<dbCategories, dbTransactions, dbSplitBills, dbSplitBillMembers, nextId>>
memVars == <<transactions, categories, splitBills, balance, totalMonth,
             totalIncome, totalExpense>>
vars    == <<dbCategories, dbTransactions, dbSplitBills, dbSplitBillMembers, nextId,
             transactions, categories, splitBills, balance, totalMonth,
             totalIncome, totalExpense, isLoading, now, proc, calls, lastSummary,
             modal, screen>>

-----------------------------------------------------------------------------
(* Bounds of the model *)

\* store actions called in one run
MaxCalls == 2
\* transaction rows of a store drawn for the summary specification
MaxStoreTx == 2

-----------------------------------------------------------------------------
(* Values *)

\* SQL NULL
NULL == "NULL"

\* a property is present in a JS object
Has(r, f) == f \in DOMAIN r

\* year-months and dates; the date string "YYYY-MM-DD" is <<y, m, d>> and the
\* string "YYYY-MM-DDThh:00:00.000Z" of toISOString() is <<y, m, d, h>>
May  == <<2024, 5>>
June == <<2024, 6>>
July == <<2024, 7>>

\* strftime('%Y-%m', date)
StrftimeYm(date) == <<date[1], date[2]>>

\* the date column is TEXT: a sorts before b as a string, field by field (the
\* fields have a fixed width), and a string sorts after each of its prefixes
DateLess(a, b) ==
    \E i \in 1..Len(b) :
        /\ \A j \in 1..(i - 1) : j <= Len(a) /\ a[j] = b[j]
        /\ i > Len(a) \/ a[i] < b[i]

\* a slip of the query: ORDER BY date DESC, id (ascending)
RecentFirstIdAscending(r, s) ==
    \/ DateLess(s.date, r.date)
    \/ r.date = s.date /\ r.id < s.id

\* ORDER BY date DESC, id DESC: r comes before s
RecentFirst(r, s) ==
    \/ DateLess(s.date, r.date)
    \/ r.date = s.date /\ r.id > s.id

RECURSIVE OrderRecent(_)
OrderRecent(S) ==
    IF S = {} THEN <<>>
    ELSE LET first == CHOOSE r \in S : \A s \in S \ {r} : RecentFirst(r, s)
         IN  <<first>> \o OrderRecent(S \ {first})

RECURSIVE OrderById(_)
OrderById(S) ==
    IF S = {} THEN <<>>
    ELSE LET first == CHOOSE r \in S : \A s \in S : r.id <= s.id
         IN  <<first>> \o OrderById(S \ {first})

RECURSIVE SumAmount(_)
SumAmount(S) ==
    IF S = {} THEN 0
    ELSE LET r == CHOOSE r \in S : TRUE
         IN  r.amount + SumAmount(S \ {r})

Range(s) == {s[i] : i \in 1..Len(s)}

Take(s, n) == IF Len(s) <= n THEN s ELSE SubSeq(s, 1, n)

-----------------------------------------------------------------------------
(* The SQL statements of the store, as functions of the tables *)

\* SELECT * FROM categories
SelectCategories(cats) == OrderById(cats)

\* a slip of addCategory: the type as given, NULL when omitted
CategoryRowTypeAsGiven(id, category) ==
    [id            |-> id,
     name          |-> category.name,
     icon          |-> category.icon,
     color         |-> category.color,
     budget_limit  |-> IF Has(category, "budget_limit") THEN category.budget_limit ELSE 0,
     category_type |-> IF Has(category, "category_type") THEN category.category_type
                       ELSE NULL]

\* INSERT INTO categories (...) with budget_limit || 0, category_type || 'expense'
CategoryRow(id, category) ==
    [id            |-> id,
     name          |-> category.name,
     icon          |-> category.icon,
     color         |-> category.color,
     budget_limit  |-> IF Has(category, "budget_limit") THEN category.budget_limit ELSE 0,
     category_type |-> IF Has(category, "category_type") THEN category.category_type
                       ELSE "expense"]

\* a slip of updateCategory: a field omitted from the partial keeps its value
UpdateCategoryRowsKeepOmitted(cats, id, category) ==
    {IF c.id = id
     THEN [c EXCEPT !.name  = IF Has(category, "name")  THEN category.name  ELSE @,
                    !.icon  = IF Has(category, "icon")  THEN category.icon  ELSE @,
                    !.color = IF Has(category, "color") THEN category.color ELSE @]
     ELSE c : c \in cats}

\* UPDATE categories SET name = ?, icon = ?, color = ? WHERE id = ?
\* with category.name || '', category.icon || '', category.color || ''
UpdateCategoryRows(cats, id, category) ==
    {IF c.id = id
     THEN [c EXCEPT !.name  = IF Has(category, "name")  THEN category.name  ELSE "",
                    !.icon  = IF Has(category, "icon")  THEN category.icon  ELSE "",
                    !.color = IF Has(category, "color") THEN category.color ELSE ""]
     ELSE c : c \in cats}

\* DELETE FROM transactions WHERE category_id = ?
DeleteTransactionsOfCategory(txs, id) == {t \in txs : t.category_id # id}

\* DELETE FROM categories WHERE id = ?
DeleteCategoryRow(cats, id) == {c \in cats : c.id # id}

\* a slip of addTransaction: the type as given, NULL when omitted
TransactionRowTypeAsGiven(id, transaction) ==
    [id          |-> id,
     category_id |-> transaction.category_id,
     amount      |-> transaction.amount,
     date        |-> transaction.date,
     note        |-> transaction.note,
     image_uri   |-> IF Has(transaction, "image_uri") THEN transaction.image_uri ELSE NULL,
     type        |-> IF Has(transaction, "type") THEN transaction.type ELSE NULL]

\* INSERT INTO transactions (...) with image_uri ?? null, type ?? 'expense'
TransactionRow(id, transaction) ==
    [id          |-> id,
     category_id |-> transaction.category_id,
     amount      |-> transaction.amount,
     date        |-> transaction.date,
     note        |-> transaction.note,
     image_uri   |-> IF Has(transaction, "image_uri") THEN transaction.image_uri ELSE NULL,
     type        |-> IF Has(transaction, "type") THEN transaction.type ELSE "expense"]

\* a slip of deleteTransaction: the row is matched on the wrong column
DeleteTransactionRowByCategory(txs, id) == {t \in txs : t.category_id # id}

\* DELETE FROM transactions WHERE id = ?
DeleteTransactionRow(txs, id) == {t \in txs : t.id # id}

\* program constant: LIMIT 20
RecentLimit == 20

\* t.*, c.name as category_name, c.icon as category_icon, c.color as category_color
JoinedRow(t, c) ==
    [id             |-> t.id,
     category_id    |-> t.category_id,
     amount         |-> t.amount,
     date           |-> t.date,
     note           |-> t.note,
     image_uri      |-> t.image_uri,
     type           |-> t.type,
     category_name  |-> c.name,
     category_icon  |-> c.icon,
     category_color |-> c.color]

\* FROM transactions t JOIN categories c ON t.category_id = c.id
JoinedRows(txs, cats) ==
    {JoinedRow(t, c) : <<t, c>> \in {tc \in txs \X cats : tc[1].category_id = tc[2].id}}

\* a slip of fetchRecentTransactions: the LIMIT is missing
SelectRecentTransactionsNoLimit(txs, cats) == OrderRecent(JoinedRows(txs, cats))

\* SELECT ... ORDER BY t.date DESC, t.id DESC LIMIT 20
SelectRecentTransactions(txs, cats) ==
    Take(OrderRecent(JoinedRows(txs, cats)), RecentLimit)

\* WHERE strftime('%Y-%m', date) = ? AND (type = 'expense' OR type IS NULL)
ExpenseRows(txs, yearMonth) ==
    {t \in txs : StrftimeYm(t.date) = yearMonth /\ (t.type = "expense" \/ t.type = NULL)}

\* WHERE strftime('%Y-%m', date) = ? AND type = 'income'
IncomeRows(txs, yearMonth) ==
    {t \in txs : StrftimeYm(t.date) = yearMonth /\ t.type = "income"}

\* SELECT COALESCE(SUM(amount), 0) as total ... expense
SelectExpenseTotal(txs, yearMonth) == SumAmount(ExpenseRows(txs, yearMonth))

\* SELECT COALESCE(SUM(amount), 0) as total ... income
SelectIncomeTotal(txs, yearMonth) == SumAmount(IncomeRows(txs, yearMonth))

\* a slip of the breakdown query: the type filter is missing
SelectBreakdownAllTypes(txs, yearMonth) ==
    {[category_id |-> id,
      total       |-> SumAmount({t \in txs : StrftimeYm(t.date) = yearMonth
                                              /\ t.category_id = id})]
     : id \in {t.category_id : t \in {u \in txs : StrftimeYm(u.date) = yearMonth}}}

\* SELECT category_id, SUM(amount) as total ... GROUP BY category_id
SelectBreakdown(txs, yearMonth) ==
    {[category_id |-> id,
      total       |-> SumAmount({t \in ExpenseRows(txs, yearMonth) : t.category_id = id})]
     : id \in {t.category_id : t \in ExpenseRows(txs, yearMonth)}}

\* SELECT * FROM split_bills ORDER BY date DESC, id DESC
SelectSplitBills(bills) == OrderRecent(bills)

\* INSERT INTO split_bills (name, date, total_amount, image_uri)
SplitBillRow(id, bill) ==
    [id           |-> id,
     name         |-> bill.name,
     date         |-> bill.date,
     total_amount |-> bill.total_amount,
     image_uri    |-> IF Has(bill, "image_uri") THEN bill.image_uri ELSE NULL]

\* a slip of addSplitBill: the member refers to its own row id, not to the bill
SplitBillMemberRowOwnId(id, billId, member) ==
    [id            |-> id,
     split_bill_id |-> id + 1,
     name          |-> member.name,
     share_amount  |-> member.share_amount,
     is_me         |-> IF member.is_me THEN 1 ELSE 0]

\* INSERT INTO split_bill_members (split_bill_id, name, share_amount, is_me)
SplitBillMemberRow(id, billId, member) ==
    [id            |-> id,
     split_bill_id |-> billId,
     name          |-> member.name,
     share_amount  |-> member.share_amount,
     is_me         |-> IF member.is_me THEN 1 ELSE 0]

\* a slip of deleteSplitBill: the condition inverted
DeleteSplitBillRowOthers(bills, id) == {b \in bills : b.id = id}

\* DELETE FROM split_bills WHERE id = ?
DeleteSplitBillRow(bills, id) == {b \in bills : b.id # id}

\* the store keeps the category of a transaction by convention, not by
\* constraint: it enforces no foreign key on transactions.category_id
ForeignKeys == FALSE

\* the member rows after the row of bill id was deleted. Whether the store
\* cascades the delete to split_bill_members is not fixed by the program,
\* which issues no statement on them: with a cascade the members of that bill
\* go with it, without one every member row stays
MembersAfterBillDelete(members, id, cascade) ==
    IF cascade THEN {m \in members : m.split_bill_id # id} ELSE members

\* the store accepts a transaction row whatever its category_id
AcceptsTransaction(cats, transaction) ==
    ForeignKeys => \E c \in cats : c.id = transaction.category_id

-----------------------------------------------------------------------------
(* calculateMonthSummary: the arithmetic on the query results *)

\* a slip of the merge: find(b => b.category_id) takes any breakdown row
CatTotalAnyRow(breakdownResult, cat) ==
    IF breakdownResult # {}
    THEN (CHOOSE b \in breakdownResult : TRUE).total
    ELSE 0

\* breakdownResult.find(b => b.category_id === cat.id)?.total || 0
CatTotal(breakdownResult, cat) ==
    IF \E b \in breakdownResult : b.category_id = cat.id
    THEN (CHOOSE b \in breakdownResult : b.category_id = cat.id).total
    ELSE 0

\* The quotients catTotal / totalExpense (in lowest terms) whose percentage is
\* exactly halfway between two integers and for which the IEEE-754 double
\* product (catTotal / totalExpense) * 100 falls just below that half
\* (e.g. 23 / 40 * 100 = 57.49999999999999).  Halfway percentages have the
\* lowest-terms denominator 8, 40 or 200; the table lists all such quotients
\* up to 3.
DoubleBelowHalf ==
    {<<23, 40>>, <<41, 40>>, <<51, 40>>, <<87, 40>>, <<97, 40>>,
     <<29, 200>>, <<57, 200>>, <<113, 200>>, <<201, 200>>, <<203, 200>>,
     <<207, 200>>, <<251, 200>>, <<253, 200>>, <<427, 200>>, <<431, 200>>,
     <<439, 200>>, <<477, 200>>, <<481, 200>>, <<489, 200>>}

\* round half up of 100 * c / t, in exact arithmetic
RoundHalfUp(c, t) == (200 * c + t) \div (2 * t)

\* Math.round((catTotal / totalExpense) * 100) in double arithmetic
MathRoundPercent(catTotal, total) ==
    IF \E q \in DoubleBelowHalf : catTotal * q[2] = q[1] * total
    THEN RoundHalfUp(catTotal, total) - 1
    ELSE RoundHalfUp(catTotal, total)

\* totalExpense > 0 ? Math.round((catTotal / totalExpense) * 100) : 0
Percentage(catTotal, total) ==
    IF total > 0 THEN MathRoundPercent(catTotal, total) ELSE 0

\* a slip of the merge: the month's spending is added to the cached totalSpent
WithStatsAccumulated(cat, catTotal, percentage) ==
    [f \in DOMAIN cat \cup {"totalSpent", "percentage"} |->
        IF f = "totalSpent"
        THEN (IF Has(cat, "totalSpent") THEN cat.totalSpent ELSE 0) + catTotal
        ELSE IF f = "percentage" THEN percentage
        ELSE cat[f]]

\* { ...cat, totalSpent: catTotal, percentage }
WithStats(cat, catTotal, percentage) ==
    [f \in DOMAIN cat \cup {"totalSpent", "percentage"} |->
        IF f = "totalSpent" THEN catTotal
        ELSE IF f = "percentage" THEN percentage
        ELSE cat[f]]

\* categories.map(cat => ...)
CategoriesWithStats(cats, breakdownResult, total) ==
    [i \in 1..Len(cats) |->
        WithStats(cats[i], CatTotal(breakdownResult, cats[i]),
                  Percentage(CatTotal(breakdownResult, cats[i]), total))]

-----------------------------------------------------------------------------
(* The store the application starts from, and the arguments of the actions *)

\* categories seeded in the database
SeedCategories ==
    {CategoryRow(1, [name |-> "Food", icon |-> "emoji:F", color |-> "#f00",
                     budget_limit |-> 0, category_type |-> "expense"]),
     CategoryRow(2, [name |-> "Salary", icon |-> "emoji:S", color |-> "#0f0",
                     budget_limit |-> 0, category_type |-> "income"])}

\* number of transactions already in the database: as many as the recent window
SeedTxCount == RecentLimit

\* transactions of May 2024 already in the database: expenses of Food, one
\* of them written before the type column existed, and one income
SeedTransactions ==
    {[id          |-> i,
      category_id |-> IF i = SeedTxCount THEN 2 ELSE 1,
      amount      |-> 5,
      date        |-> <<2024, 5, i>>,
      note        |-> "seed",
      image_uri   |-> NULL,
      type        |-> IF i = 1 THEN NULL
                      ELSE IF i = SeedTxCount THEN "income" ELSE "expense"]
     : i \in 1..SeedTxCount}

\* arguments of addCategory
CategoryInputs ==
    {[name |-> "Pets", icon |-> "emoji:P", color |-> "#00f"],
     [name |-> "Bonus", icon |-> "emoji:B", color |-> "#ff0",
      budget_limit |-> 100, category_type |-> "income"]}

\* arguments of updateCategory
CategoryPartials == {[name |-> "Snack", color |-> "#0ff"]}

CategoryIds == 1..(Cardinality(SeedCategories) + 1)

\* amounts: 23 of 40 is a halfway percentage (57.5), so is 17 of 136 (12.5)
Amounts == {17, 23, 119}

\* dates of new transactions: a day of May, and 08:00 of a day of June
TxDates == {<<2024, 5, 10>>, <<2024, 6, 15, 8>>}

\* arguments of addTransaction: 23 in category 1 or 17 in category 2; an
\* expense (type omitted) of either date, or an income of the same day of June
\* at 09:00; and an expense of a category id that no seeded category has
TxInputs ==
    {[category_id |-> Cardinality(SeedCategories) + 1, amount |-> 17,
      date |-> <<2024, 6, 15>>, note |-> "stray"]}
    \cup
    {[category_id |-> c, amount |-> IF c = 1 THEN 23 ELSE 17, date |-> d, note |-> "lunch"]
        : c \in {1, 2}, d \in TxDates}
    \cup
    {[category_id |-> c, amount |-> IF c = 1 THEN 23 ELSE 17, date |-> <<2024, 6, 15, 9>>,
      note |-> "pay", type |-> "income"]
        : c \in {1, 2}}

\* arguments of deleteTransaction
TxIds == {1, SeedTxCount, SeedTxCount + 1}

\* arguments of calculateMonthSummary
Months == {May}

\* arguments of addSplitBill
BillInput == [name |-> "Dinner", date |-> <<2024, 6, 1>>, total_amount |-> 40]
MemberMe  == [name |-> "me",  share_amount |-> 23, is_me |-> TRUE]
MemberBob == [name |-> "Bob", share_amount |-> 17, is_me |-> FALSE]
MemberInputs == {<<>>, <<MemberMe, MemberBob>>}

\* arguments of deleteSplitBill
BillIds == {1}

-----------------------------------------------------------------------------
(* Actions in flight *)

\* the in-memory state as a caller sees it
Snapshot ==
    [transactions |-> transactions, categories |-> categories,
     splitBills |-> splitBills, balance |-> balance, totalMonth |-> totalMonth,
     totalIncome |-> totalIncome, totalExpense |-> totalExpense]

NoLocals ==
    [yearMonth |-> <<>>, expenseResult |-> 0, incomeResult |-> 0,
     billId |-> 0, rest |-> <<>>, removed |-> {}]

Idle ==
    [op |-> "none", pc |-> "idle", arg |-> <<>>, loc |-> NoLocals,
     failedIn |-> {}, rejected |-> FALSE, pre |-> Snapshot, preIds |-> {}]

\* a called action, suspended at its first await; pre and preIds are history:
\* the in-memory state and the ids of the category table at the call
Called(op, pc, arg, loc) ==
    [op |-> op, pc |-> pc, arg |-> arg, loc |-> loc,
     failedIn |-> {}, rejected |-> FALSE, pre |-> Snapshot,
     preIds |-> {c.id : c \in dbCategories}]

\* a slip: calculateMonthSummary without its try / catch
TryCatchButSummary ==
    {"fetchCategories", "addCategory", "updateCategory", "deleteCategory",
     "addTransaction", "fetchRecentTransactions", "deleteTransaction",
     "fetchSplitBills", "addSplitBill", "deleteSplitBill"}

\* the functions of the store whose whole body is try { ... } catch { log }
TryCatch ==
    {"fetchCategories", "addCategory", "updateCategory", "deleteCategory",
     "addTransaction", "fetchRecentTransactions", "deleteTransaction",
     "calculateMonthSummary", "fetchSplitBills", "addSplitBill", "deleteSplitBill"}

CanCall(p) == proc[p].pc \in {"idle", "done"} /\ calls < MaxCalls

InFlight(p) == proc[p].pc \notin {"idle", "done"}

\* the functions in which a statement has failed, with one more failure in fn
\* ("" when the statement succeeded)
Failures(p, fn) == IF fn = "" THEN proc[p].failedIn ELSE proc[p].failedIn \cup {fn}

\* a failure in fn reaches the caller unless fn catches it
Rejects(p, fn) == proc[p].rejected \/ (fn # "" /\ fn \notin TryCatch)

\* a slip of the store: the promise of a failed statement is never settled,
\* the action stays pending
ReturnedStaysPending(p, fn) ==
    IF fn = ""
    THEN [proc[p] EXCEPT !.pc = "done"]
    ELSE [proc[p] EXCEPT !.pc = "pending", !.failedIn = Failures(p, fn)]

\* the action of p returns after a statement of fn has run or failed
Returned(p, fn) ==
    [proc[p] EXCEPT !.pc = "done",
                    !.failedIn = Failures(p, fn),
                    !.rejected = Rejects(p, fn)]

\* a function of the store called by the action of p returns after a statement
\* of fn has run or failed; the action is suspended at its `await get().fn(db)`
\* and resumes at pc in a later turn of the event loop
Resumes(p, fn, pc) ==
    [proc[p] EXCEPT !.pc = pc,
                    !.failedIn = Failures(p, fn),
                    !.rejected = Rejects(p, fn)]

\* a slip of addTransaction: no finally, the busy flag is never cleared
AfterReturnNoFinally(p) == isLoading

\* the busy flag after the action of p has returned: addTransaction's finally
AfterReturn(p) == IF proc[p].op = "addTransaction" THEN FALSE ELSE isLoading

-----------------------------------------------------------------------------
(* Category actions *)

\* fetchCategories(db), up to its await
CallFetchCategories(p) ==
    /\ CanCall(p)
    /\ proc' = [proc EXCEPT ![p] = Called("fetchCategories", "selectCategories", <<>>, NoLocals)]
    /\ calls' = calls + 1
    /\ lastSummary' = <<>>
    /\ UNCHANGED <<dbVars, memVars, isLoading, now, modal, screen>>

\* await db.getAllAsync('SELECT * FROM categories'); set({ categories: result })
\* (also the nested call of addCategory, updateCategory and deleteCategory, which
\* resume once fetchCategories has returned)
AwaitSelectCategories(p) ==
    /\ proc[p].pc = "selectCategories"
    /\ \E ok \in BOOLEAN :
        /\ categories' = IF ok THEN SelectCategories(dbCategories) ELSE categories
        /\ proc' = [proc EXCEPT ![p] =
                     IF proc[p].op = "fetchCategories"
                     THEN Returned(p, IF ok THEN "" ELSE "fetchCategories")
                     ELSE Resumes(p, IF ok THEN "" ELSE "fetchCategories",
                                  "afterFetchCategories")]
    /\ UNCHANGED <<dbVars, transactions, splitBills, balance, totalMonth, totalIncome,
                   totalExpense, isLoading, now, modal, screen, calls, lastSummary>>

\* addCategory, updateCategory and deleteCategory resume from
\* `await get().fetchCategories(db)`: the try block ends and the action returns
ResumeAfterFetchCategories(p) ==
    /\ proc[p].pc = "afterFetchCategories"
    /\ proc' = [proc EXCEPT ![p] = Returned(p, "")]
    /\ UNCHANGED <<dbVars, memVars, isLoading, now, modal, screen, calls, lastSummary>>

\* addCategory(db, category), up to its first await
CallAddCategory(p, category) ==
    /\ CanCall(p)
    /\ proc' = [proc EXCEPT ![p] =
                 Called("addCategory", "insertCategory", [category |-> category], NoLocals)]
    /\ calls' = calls + 1
    /\ lastSummary' = <<>>
    /\ UNCHANGED <<dbVars, memVars, isLoading, now, modal, screen>>

\* await db.runAsync('INSERT INTO categories ...'); then get().fetchCategories(db)
AwaitInsertCategory(p) ==
    /\ proc[p].pc = "insertCategory"
    /\ \E ok \in BOOLEAN :
        IF ok
        THEN /\ dbCategories' = dbCategories \cup
                    {CategoryRow(nextId.categories, proc[p].arg.category)}
             /\ nextId' = [nextId EXCEPT !.categories = @ + 1]
             /\ proc' = [proc EXCEPT ![p].pc = "selectCategories"]
        ELSE /\ proc' = [proc EXCEPT ![p] = Returned(p, "addCategory")]
             /\ UNCHANGED <<dbCategories, nextId>>
    /\ lastSummary' = <<>>
    /\ UNCHANGED <<dbTransactions, dbSplitBills, dbSplitBillMembers, memVars,
                   isLoading, now, modal, screen, calls>>

\* updateCategory(db, id, category), up to its first await
CallUpdateCategory(p, id, category) ==
    /\ CanCall(p)
    /\ proc' = [proc EXCEPT ![p] =
                 Called("updateCategory", "updateCategory",
                        [id |-> id, category |-> category], NoLocals)]
    /\ calls' = calls + 1
    /\ lastSummary' = <<>>
    /\ UNCHANGED <<dbVars, memVars, isLoading, now, modal, screen>>

\* await db.runAsync('UPDATE categories ...'); then get().fetchCategories(db)
AwaitUpdateCategory(p) ==
    /\ proc[p].pc = "updateCategory"
    /\ \E ok \in BOOLEAN :
        IF ok
        THEN /\ dbCategories' =
                    UpdateCategoryRows(dbCategories, proc[p].arg.id, proc[p].arg.category)
             /\ proc' = [proc EXCEPT ![p].pc = "selectCategories"]
        ELSE /\ proc' = [proc EXCEPT ![p] = Returned(p, "updateCategory")]
             /\ UNCHANGED dbCategories
    /\ lastSummary' = <<>>
    /\ UNCHANGED <<dbTransactions, dbSplitBills, dbSplitBillMembers, nextId, memVars,
                   isLoading, now, modal, screen, calls>>

\* deleteCategory(db, id), up to its first await
CallDeleteCategory(p, id) ==
    /\ CanCall(p)
    /\ proc' = [proc EXCEPT ![p] =
                 Called("deleteCategory", "deleteCategoryTransactions", [id |-> id], NoLocals)]
    /\ calls' = calls + 1
    /\ lastSummary' = <<>>
    /\ UNCHANGED <<dbVars, memVars, isLoading, now, modal, screen>>

\* await db.runAsync('DELETE FROM transactions WHERE category_id = ?', [id])
AwaitDeleteCategoryTransactions(p) ==
    /\ proc[p].pc = "deleteCategoryTransactions"
    /\ \E ok \in BOOLEAN :
        IF ok
        THEN /\ dbTransactions' = DeleteTransactionsOfCategory(dbTransactions, proc[p].arg.id)
             /\ proc' = [proc EXCEPT ![p].pc = "deleteCategoryRow"]
        ELSE /\ proc' = [proc EXCEPT ![p] = Returned(p, "deleteCategory")]
             /\ UNCHANGED dbTransactions
    /\ lastSummary' = <<>>
    /\ UNCHANGED <<dbCategories, dbSplitBills, dbSplitBillMembers, nextId, memVars,
                   isLoading, now, modal, screen, calls>>

\* await db.runAsync('DELETE FROM categories WHERE id = ?', [id]); then fetchCategories
AwaitDeleteCategoryRow(p) ==
    /\ proc[p].pc = "deleteCategoryRow"
    /\ \E ok \in BOOLEAN :
        IF ok
        THEN /\ dbCategories' = DeleteCategoryRow(dbCategories, proc[p].arg.id)
             /\ proc' = [proc EXCEPT ![p].pc = "selectCategories"]
        ELSE /\ proc' = [proc EXCEPT ![p] = Returned(p, "deleteCategory")]
             /\ UNCHANGED dbCategories
    /\ lastSummary' = <<>>
    /\ UNCHANGED <<dbTransactions, dbSplitBills, dbSplitBillMembers, nextId, memVars,
                   isLoading, now, modal, screen, calls>>

-----------------------------------------------------------------------------
(* Transaction actions *)

\* a slip of addTransaction / deleteTransaction: the summary is not recomputed
EnterSummarySkipped(p) == [proc[p] EXCEPT !.pc = "afterSummary"]

\* calculateMonthSummary entered from addTransaction / deleteTransaction:
\* no month is passed, so targetDate = new Date()
EnterSummary(p) ==
    [proc[p] EXCEPT !.pc = "selectExpense",
                    !.loc.yearMonth = now]

\* addTransaction(db, transaction), up to its first await: set({ isLoading: true })
CallAddTransaction(p, transaction) ==
    /\ CanCall(p)
    /\ isLoading' = TRUE
    /\ proc' = [proc EXCEPT ![p] =
                 Called("addTransaction", "insertTransaction",
                        [transaction |-> transaction], NoLocals)]
    /\ calls' = calls + 1
    /\ lastSummary' = <<>>
    /\ UNCHANGED <<dbVars, memVars, now, modal, screen>>

\* a slip of the alias: addExpense inserts without raising the busy flag
CallAddExpenseNotBusy(p, transaction) ==
    /\ CanCall(p)
    /\ isLoading' = isLoading
    /\ proc' = [proc EXCEPT ![p] =
                 Called("addTransaction", "insertTransaction",
                        [transaction |-> transaction, alias |-> "addExpense"], NoLocals)]
    /\ calls' = calls + 1
    /\ lastSummary' = <<>>
    /\ UNCHANGED <<dbVars, memVars, now, modal, screen>>

\* addExpense(db, transaction): return get().addTransaction(db, transaction);
\* the call is recorded as made through the alias
CallAddExpense(p, transaction) ==
    /\ CanCall(p)
    /\ isLoading' = TRUE
    /\ proc' = [proc EXCEPT ![p] =
                 Called("addTransaction", "insertTransaction",
                        [transaction |-> transaction, alias |-> "addExpense"], NoLocals)]
    /\ calls' = calls + 1
    /\ lastSummary' = <<>>
    /\ UNCHANGED <<dbVars, memVars, now, modal, screen>>

\* await db.runAsync('INSERT INTO transactions ...'); then fetchRecentTransactions;
\* on failure: catch, finally set({ isLoading: false })
AwaitInsertTransaction(p) ==
    /\ proc[p].pc = "insertTransaction"
    /\ \E ok \in {b \in BOOLEAN :
                    b => AcceptsTransaction(dbCategories, proc[p].arg.transaction)} :
        IF ok
        THEN /\ dbTransactions' = dbTransactions \cup
                    {TransactionRow(nextId.transactions, proc[p].arg.transaction)}
             /\ nextId' = [nextId EXCEPT !.transactions = @ + 1]
             /\ proc' = [proc EXCEPT ![p].pc = "selectRecent"]
             /\ UNCHANGED isLoading
        ELSE /\ proc' = [proc EXCEPT ![p] = Returned(p, "addTransaction")]
             /\ isLoading' = AfterReturn(p)
             /\ UNCHANGED <<dbTransactions, nextId>>
    /\ lastSummary' = <<>>
    /\ UNCHANGED <<dbCategories, dbSplitBills, dbSplitBillMembers, memVars, now, modal, screen, calls>>

\* fetchRecentTransactions(db), up to its await
CallFetchRecentTransactions(p) ==
    /\ CanCall(p)
    /\ proc' = [proc EXCEPT ![p] =
                 Called("fetchRecentTransactions", "selectRecent", <<>>, NoLocals)]
    /\ calls' = calls + 1
    /\ lastSummary' = <<>>
    /\ UNCHANGED <<dbVars, memVars, isLoading, now, modal, screen>>

\* await db.getAllAsync(SELECT ... LIMIT 20); set({ transactions: result });
\* addTransaction and deleteTransaction resume once fetchRecentTransactions has
\* returned
AwaitSelectRecent(p) ==
    /\ proc[p].pc = "selectRecent"
    /\ \E ok \in BOOLEAN :
        /\ transactions' = IF ok THEN SelectRecentTransactions(dbTransactions, dbCategories)
                           ELSE transactions
        /\ proc' = [proc EXCEPT ![p] =
                     IF proc[p].op = "fetchRecentTransactions"
                     THEN Returned(p, IF ok THEN "" ELSE "fetchRecentTransactions")
                     ELSE Resumes(p, IF ok THEN "" ELSE "fetchRecentTransactions",
                                  "afterFetchRecent")]
    /\ UNCHANGED <<dbVars, categories, splitBills, balance, totalMonth, totalIncome,
                   totalExpense, isLoading, now, modal, screen, calls, lastSummary>>

\* addTransaction and deleteTransaction resume from
\* `await get().fetchRecentTransactions(db)` and call calculateMonthSummary(db),
\* which runs up to its first await
ResumeAfterFetchRecent(p) ==
    /\ proc[p].pc = "afterFetchRecent"
    /\ proc' = [proc EXCEPT ![p] = EnterSummary(p)]
    /\ UNCHANGED <<dbVars, memVars, isLoading, now, modal, screen, calls, lastSummary>>

\* deleteTransaction(db, id), up to its first await
CallDeleteTransaction(p, id) ==
    /\ CanCall(p)
    /\ proc' = [proc EXCEPT ![p] =
                 Called("deleteTransaction", "deleteTransaction", [id |-> id], NoLocals)]
    /\ calls' = calls + 1
    /\ lastSummary' = <<>>
    /\ UNCHANGED <<dbVars, memVars, isLoading, now, modal, screen>>

\* await db.runAsync('DELETE FROM transactions WHERE id = ?', [id]); then
\* fetchRecentTransactions
AwaitDeleteTransaction(p) ==
    /\ proc[p].pc = "deleteTransaction"
    /\ \E ok \in BOOLEAN :
        IF ok
        THEN /\ dbTransactions' = DeleteTransactionRow(dbTransactions, proc[p].arg.id)
             /\ proc' = [proc EXCEPT ![p].pc = "selectRecent",
                                     ![p].loc.removed =
                                        {t \in dbTransactions : t.id = proc[p].arg.id}]
        ELSE /\ proc' = [proc EXCEPT ![p] = Returned(p, "deleteTransaction")]
             /\ UNCHANGED dbTransactions
    /\ lastSummary' = <<>>
    /\ UNCHANGED <<dbCategories, dbSplitBills, dbSplitBillMembers, nextId, memVars,
                   isLoading, now, modal, screen, calls>>

-----------------------------------------------------------------------------
(* Summary *)

\* arguments of calculateMonthSummary: selectedMonth omitted or given
SummaryInputs == {<<>>} \cup {[selectedMonth |-> m] : m \in Months}

\* const targetDate = selectedMonth || new Date(); yearMonth = `${year}-${month}`
YearMonth(arg, clock) == IF Has(arg, "selectedMonth") THEN arg.selectedMonth ELSE clock

\* a slip of the summary: the legacy alias gets the income, not the balance
SummaryTotalsAliasOff(expenseResult, incomeResult) ==
    [totalExpense |-> expenseResult,
     totalIncome  |-> incomeResult,
     balance      |-> incomeResult - expenseResult,
     totalMonth   |-> incomeResult]

\* totalExpense = expenseResult?.total || 0; totalIncome = incomeResult?.total || 0;
\* balance = totalIncome - totalExpense; totalMonth: balance
SummaryTotals(expenseResult, incomeResult) ==
    [totalExpense |-> expenseResult,
     totalIncome  |-> incomeResult,
     balance      |-> incomeResult - expenseResult,
     totalMonth   |-> incomeResult - expenseResult]

\* calculateMonthSummary returns after a statement of fn has run or failed: to
\* its caller, or to the addTransaction / deleteTransaction that awaits it
SummaryReturned(p, fn) ==
    IF proc[p].op = "calculateMonthSummary"
    THEN Returned(p, fn)
    ELSE Resumes(p, fn, "afterSummary")

\* calculateMonthSummary(db, selectedMonth), up to its first await
CallCalculateMonthSummary(p, arg) ==
    /\ CanCall(p)
    /\ proc' = [proc EXCEPT ![p] =
                 Called("calculateMonthSummary", "selectExpense", arg,
                        [NoLocals EXCEPT !.yearMonth = YearMonth(arg, now)])]
    /\ calls' = calls + 1
    /\ UNCHANGED <<dbVars, memVars, isLoading, now, modal, screen, lastSummary>>

\* calculateTotalMonth(db, selectedMonth):
\* return get().calculateMonthSummary(db, selectedMonth)
\* the call is recorded as made through the alias
CallCalculateTotalMonth(p, arg) ==
    /\ CanCall(p)
    /\ proc' = [proc EXCEPT ![p] =
                 Called("calculateMonthSummary", "selectExpense",
                        arg @@ [alias |-> "calculateTotalMonth"],
                        [NoLocals EXCEPT !.yearMonth = YearMonth(arg, now)])]
    /\ calls' = calls + 1
    /\ UNCHANGED <<dbVars, memVars, isLoading, now, modal, screen, lastSummary>>

\* await db.getFirstAsync(SELECT COALESCE(SUM(amount), 0) ... expense)
AwaitSelectExpense(p) ==
    /\ proc[p].pc = "selectExpense"
    /\ \E ok \in BOOLEAN :
        IF ok
        THEN proc' = [proc EXCEPT ![p].pc = "selectIncome",
                                  ![p].loc.expenseResult =
                                     SelectExpenseTotal(dbTransactions, proc[p].loc.yearMonth)]
        ELSE proc' = [proc EXCEPT ![p] = SummaryReturned(p, "calculateMonthSummary")]
    /\ UNCHANGED <<dbVars, memVars, isLoading, now, modal, screen, calls, lastSummary>>

\* await db.getFirstAsync(SELECT COALESCE(SUM(amount), 0) ... income)
AwaitSelectIncome(p) ==
    /\ proc[p].pc = "selectIncome"
    /\ \E ok \in BOOLEAN :
        IF ok
        THEN proc' = [proc EXCEPT ![p].pc = "selectBreakdown",
                                  ![p].loc.incomeResult =
                                     SelectIncomeTotal(dbTransactions, proc[p].loc.yearMonth)]
        ELSE proc' = [proc EXCEPT ![p] = SummaryReturned(p, "calculateMonthSummary")]
    /\ UNCHANGED <<dbVars, memVars, isLoading, now, modal, screen, calls, lastSummary>>

\* await db.getAllAsync(SELECT category_id, SUM(amount) ... GROUP BY category_id);
\* map the breakdown onto get().categories; set({ balance, totalMonth, ... })
AwaitSelectBreakdown(p) ==
    /\ proc[p].pc = "selectBreakdown"
    /\ \E ok \in BOOLEAN :
        IF ok
        THEN LET totals == SummaryTotals(proc[p].loc.expenseResult, proc[p].loc.incomeResult)
                 breakdownResult == SelectBreakdown(dbTransactions, proc[p].loc.yearMonth)
             IN  /\ balance' = totals.balance
                 /\ totalMonth' = totals.totalMonth
                 /\ totalIncome' = totals.totalIncome
                 /\ totalExpense' = totals.totalExpense
                 /\ categories' =
                        CategoriesWithStats(categories, breakdownResult, totals.totalExpense)
                 /\ proc' = [proc EXCEPT ![p] = SummaryReturned(p, "")]
                 /\ lastSummary' = IF proc[p].op = "calculateMonthSummary"
                                   THEN <<proc[p].loc.yearMonth>> ELSE <<>>
        ELSE /\ proc' = [proc EXCEPT ![p] = SummaryReturned(p, "calculateMonthSummary")]
             /\ UNCHANGED <<balance, totalMonth, totalIncome, totalExpense, categories,
                            lastSummary>>
    /\ UNCHANGED <<dbVars, transactions, splitBills, isLoading, now, modal, screen, calls>>

\* addTransaction and deleteTransaction resume from
\* `await get().calculateMonthSummary(db)`: the try block ends, addTransaction's
\* finally runs set({ isLoading: false }), and the action returns
ResumeAfterSummary(p) ==
    /\ proc[p].pc = "afterSummary"
    /\ proc' = [proc EXCEPT ![p] = Returned(p, "")]
    /\ isLoading' = AfterReturn(p)
    /\ UNCHANGED <<dbVars, memVars, now, modal, screen, calls, lastSummary>>

-----------------------------------------------------------------------------
(* Split bill actions *)

\* fetchSplitBills(db), up to its await
CallFetchSplitBills(p) ==
    /\ CanCall(p)
    /\ proc' = [proc EXCEPT ![p] = Called("fetchSplitBills", "selectSplitBills", <<>>, NoLocals)]
    /\ calls' = calls + 1
    /\ lastSummary' = <<>>
    /\ UNCHANGED <<dbVars, memVars, isLoading, now, modal, screen>>

\* await db.getAllAsync('SELECT * FROM split_bills ORDER BY ...'); set({ splitBills })
AwaitSelectSplitBills(p) ==
    /\ proc[p].pc = "selectSplitBills"
    /\ \E ok \in BOOLEAN :
        /\ splitBills' = IF ok THEN SelectSplitBills(dbSplitBills) ELSE splitBills
        /\ proc' = [proc EXCEPT ![p] =
                     IF proc[p].op = "fetchSplitBills"
                     THEN Returned(p, IF ok THEN "" ELSE "fetchSplitBills")
                     ELSE Resumes(p, IF ok THEN "" ELSE "fetchSplitBills",
                                  "afterFetchSplitBills")]
    /\ UNCHANGED <<dbVars, transactions, categories, balance, totalMonth, totalIncome,
                   totalExpense, isLoading, now, modal, screen, calls, lastSummary>>

\* addSplitBill and deleteSplitBill resume from `await get().fetchSplitBills(db)`:
\* the try block ends and the action returns
ResumeAfterFetchSplitBills(p) ==
    /\ proc[p].pc = "afterFetchSplitBills"
    /\ proc' = [proc EXCEPT ![p] = Returned(p, "")]
    /\ UNCHANGED <<dbVars, memVars, isLoading, now, modal, screen, calls, lastSummary>>

\* addSplitBill(db, bill, members), up to its first await
CallAddSplitBill(p, bill, members) ==
    /\ CanCall(p)
    /\ proc' = [proc EXCEPT ![p] =
                 Called("addSplitBill", "insertSplitBill",
                        [bill |-> bill, members |-> members], NoLocals)]
    /\ calls' = calls + 1
    /\ lastSummary' = <<>>
    /\ UNCHANGED <<dbVars, memVars, isLoading, now, modal, screen>>

\* after the bill insert and after each member insert: the next member of the
\* for loop, or fetchSplitBills when none is left
AfterInsert(rest) == IF rest = <<>> THEN "selectSplitBills" ELSE "insertMember"

\* const result = await db.runAsync('INSERT INTO split_bills ...');
\* const billId = result.lastInsertRowId
AwaitInsertSplitBill(p) ==
    /\ proc[p].pc = "insertSplitBill"
    /\ \E ok \in BOOLEAN :
        IF ok
        THEN /\ dbSplitBills' = dbSplitBills \cup
                    {SplitBillRow(nextId.split_bills, proc[p].arg.bill)}
             /\ nextId' = [nextId EXCEPT !.split_bills = @ + 1]
             /\ proc' = [proc EXCEPT ![p].pc = AfterInsert(proc[p].arg.members),
                                     ![p].loc.billId = nextId.split_bills,
                                     ![p].loc.rest = proc[p].arg.members]
        ELSE /\ proc' = [proc EXCEPT ![p] = Returned(p, "addSplitBill")]
             /\ UNCHANGED <<dbSplitBills, nextId>>
    /\ lastSummary' = <<>>
    /\ UNCHANGED <<dbCategories, dbTransactions, dbSplitBillMembers, memVars,
                   isLoading, now, modal, screen, calls>>

\* for (const member of members) await db.runAsync('INSERT INTO split_bill_members ...')
AwaitInsertMember(p) ==
    /\ proc[p].pc = "insertMember"
    /\ \E ok \in BOOLEAN :
        IF ok
        THEN /\ dbSplitBillMembers' = dbSplitBillMembers \cup
                    {SplitBillMemberRow(nextId.split_bill_members, proc[p].loc.billId,
                                        Head(proc[p].loc.rest))}
             /\ nextId' = [nextId EXCEPT !.split_bill_members = @ + 1]
             /\ proc' = [proc EXCEPT ![p].pc = AfterInsert(Tail(proc[p].loc.rest)),
                                     ![p].loc.rest = Tail(proc[p].loc.rest)]
        ELSE /\ proc' = [proc EXCEPT ![p] = Returned(p, "addSplitBill")]
             /\ UNCHANGED <<dbSplitBillMembers, nextId>>
    /\ lastSummary' = <<>>
    /\ UNCHANGED <<dbCategories, dbTransactions, dbSplitBills, memVars,
                   isLoading, now, modal, screen, calls>>

\* deleteSplitBill(db, id), up to its first await
CallDeleteSplitBill(p, id) ==
    /\ CanCall(p)
    /\ proc' = [proc EXCEPT ![p] =
                 Called("deleteSplitBill", "deleteSplitBill", [id |-> id], NoLocals)]
    /\ calls' = calls + 1
    /\ lastSummary' = <<>>
    /\ UNCHANGED <<dbVars, memVars, isLoading, now, modal, screen>>

\* await db.runAsync('DELETE FROM split_bills WHERE id = ?', [id]); then fetchSplitBills
AwaitDeleteSplitBill(p) ==
    /\ proc[p].pc = "deleteSplitBill"
    /\ \E ok \in BOOLEAN, cascade \in BOOLEAN :
        IF ok
        THEN /\ dbSplitBills' = DeleteSplitBillRow(dbSplitBills, proc[p].arg.id)
             /\ dbSplitBillMembers' =
                    MembersAfterBillDelete(dbSplitBillMembers, proc[p].arg.id, cascade)
             /\ proc' = [proc EXCEPT ![p].pc = "selectSplitBills"]
        ELSE /\ proc' = [proc EXCEPT ![p] = Returned(p, "deleteSplitBill")]
             /\ UNCHANGED <<dbSplitBills, dbSplitBillMembers>>
    /\ lastSummary' = <<>>
    /\ UNCHANGED <<dbCategories, dbTransactions, nextId, memVars,
                   isLoading, now, modal, screen, calls>>

-----------------------------------------------------------------------------
(* The device clock *)

LastMonth == July

NextMonth(ym) == IF ym[2] = 12 THEN <<ym[1] + 1, 1>> ELSE <<ym[1], ym[2] + 1>>

\* a month passes
Tick ==
    /\ now # LastMonth
    /\ now' = NextMonth(now)
    /\ UNCHANGED <<dbVars, memVars, isLoading, proc, calls, lastSummary, modal, screen>>

-----------------------------------------------------------------------------
(* The components that call the store: absent unless a specification mounts them *)

\* SmartTextModal with visible = false
NotShown == [visible |-> FALSE]

\* AddTransactionScreen not on the navigation stack
NotMounted == [mounted |-> FALSE]

-----------------------------------------------------------------------------
(* One caller that awaits each action before it calls the next *)

EmptyState ==
    /\ transactions = <<>>
    /\ categories = <<>>
    /\ splitBills = <<>>
    /\ balance = 0
    /\ totalMonth = 0
    /\ totalIncome = 0
    /\ totalExpense = 0
    /\ isLoading = FALSE

Init ==
    /\ dbCategories = SeedCategories
    /\ dbTransactions = SeedTransactions
    /\ dbSplitBills = {}
    /\ dbSplitBillMembers = {}
    /\ nextId = [categories |-> Cardinality(SeedCategories) + 1,
                 transactions |-> SeedTxCount + 1,
                 split_bills |-> 1,
                 split_bill_members |-> 1]
    /\ EmptyState
    /\ now = June
    /\ proc = [p \in {1} |-> Idle]
    /\ calls = 0
    /\ lastSummary = <<>>
    /\ modal = NotShown
    /\ screen = NotMounted

Next ==
    \/ \E p \in DOMAIN proc : CallFetchCategories(p)
    \/ \E p \in DOMAIN proc : \E category \in CategoryInputs : CallAddCategory(p, category)
    \/ \E p \in DOMAIN proc : \E id \in CategoryIds, category \in CategoryPartials :
            CallUpdateCategory(p, id, category)
    \/ \E p \in DOMAIN proc : \E id \in CategoryIds : CallDeleteCategory(p, id)
    \/ \E p \in DOMAIN proc : \E transaction \in TxInputs : CallAddTransaction(p, transaction)
    \/ \E p \in DOMAIN proc : CallFetchRecentTransactions(p)
    \/ \E p \in DOMAIN proc : \E id \in TxIds : CallDeleteTransaction(p, id)
    \/ \E p \in DOMAIN proc : \E arg \in SummaryInputs : CallCalculateMonthSummary(p, arg)
    \/ \E p \in DOMAIN proc : CallFetchSplitBills(p)
    \/ \E p \in DOMAIN proc : \E members \in MemberInputs : CallAddSplitBill(p, BillInput, members)
    \/ \E p \in DOMAIN proc : \E id \in BillIds : CallDeleteSplitBill(p, id)
    \/ \E p \in DOMAIN proc : AwaitSelectCategories(p)
    \/ \E p \in DOMAIN proc : AwaitInsertCategory(p)
    \/ \E p \in DOMAIN proc : AwaitUpdateCategory(p)
    \/ \E p \in DOMAIN proc : AwaitDeleteCategoryTransactions(p)
    \/ \E p \in DOMAIN proc : AwaitDeleteCategoryRow(p)
    \/ \E p \in DOMAIN proc : AwaitInsertTransaction(p)
    \/ \E p \in DOMAIN proc : AwaitSelectRecent(p)
    \/ \E p \in DOMAIN proc : AwaitDeleteTransaction(p)
    \/ \E p \in DOMAIN proc : AwaitSelectExpense(p)
    \/ \E p \in DOMAIN proc : AwaitSelectIncome(p)
    \/ \E p \in DOMAIN proc : AwaitSelectBreakdown(p)
    \/ \E p \in DOMAIN proc : AwaitSelectSplitBills(p)
    \/ \E p \in DOMAIN proc : AwaitInsertSplitBill(p)
    \/ \E p \in DOMAIN proc : AwaitInsertMember(p)
    \/ \E p \in DOMAIN proc : AwaitDeleteSplitBill(p)
    \/ \E p \in DOMAIN proc : ResumeAfterFetchCategories(p)
    \/ \E p \in DOMAIN proc : ResumeAfterFetchRecent(p)
    \/ \E p \in DOMAIN proc : ResumeAfterSummary(p)
    \/ \E p \in DOMAIN proc : ResumeAfterFetchSplitBills(p)

Spec == Init /\ [][Next]_vars

-----------------------------------------------------------------------------
(* calculateMonthSummary on any store: the store and the category cache are   *)
(* drawn at the start and the summary is computed, for the month of the clock *)
(* or for a given month, and then called again with the same argument.        *)

\* the values a row of a drawn store is made of
AmountSeq == <<17, 23, 119>>
DateSeq   == <<<<2024, 5, 10>>, <<2024, 6, 15, 8>>>>
TypeSeq   == <<"expense", "income", NULL>>

NumShapes == 2 * Len(AmountSeq) * Len(DateSeq) * Len(TypeSeq)

\* the k-th row shape, k in 0..NumShapes-1
Shape(k) ==
    [category_id |-> 1 + (k % 2),
     amount      |-> AmountSeq[1 + ((k \div 2) % Len(AmountSeq))],
     date        |-> DateSeq[1 + ((k \div (2 * Len(AmountSeq))) % Len(DateSeq))],
     type        |-> TypeSeq[1 + (k \div (2 * Len(AmountSeq) * Len(DateSeq)))]]

\* the tables of at most MaxStoreTx rows; the rows get the ids 1, 2, ... in the
\* order of their shapes
DrawnStores ==
    {{[id |-> i, category_id |-> Shape(nf[2][i]).category_id,
       amount |-> Shape(nf[2][i]).amount, date |-> Shape(nf[2][i]).date,
       note |-> "row", image_uri |-> NULL, type |-> Shape(nf[2][i]).type] : i \in 1..nf[1]}
     : nf \in {nf \in UNION {{n} \X [1..n -> 0..(NumShapes - 1)] : n \in 0..MaxStoreTx}
                 : \A i, j \in 1..nf[1] : i <= j => nf[2][i] <= nf[2][j]}}

InitSummary ==
    /\ dbCategories = SeedCategories
    /\ dbTransactions \in DrawnStores
    /\ dbSplitBills = {}
    /\ dbSplitBillMembers = {}
    /\ nextId = [categories |-> Cardinality(SeedCategories) + 1,
                 transactions |-> Cardinality(dbTransactions) + 1,
                 split_bills |-> 1,
                 split_bill_members |-> 1]
    /\ transactions = <<>>
    /\ categories \in {<<>>, SelectCategories(SeedCategories)}
    /\ splitBills = <<>>
    /\ balance = 0
    /\ totalMonth = 0
    /\ totalIncome = 0
    /\ totalExpense = 0
    /\ isLoading = FALSE
    /\ now = June
    /\ proc = [p \in {1} |-> Idle]
    /\ calls = 0
    /\ lastSummary = <<>>
    /\ modal = NotShown
    /\ screen = NotMounted

\* the first summary of a run
CallSummaryOnce(p, arg) ==
    /\ proc[p].pc = "idle"
    /\ CallCalculateMonthSummary(p, arg)

\* the same summary called again once it has completed
CallSummaryAgain(p) ==
    /\ proc[p].pc = "done"
    /\ proc[p].failedIn = {}
    /\ CallCalculateMonthSummary(p, proc[p].arg)

NextSummary ==
    \/ \E p \in DOMAIN proc : \E arg \in SummaryInputs : CallSummaryOnce(p, arg)
    \/ \E p \in DOMAIN proc : CallSummaryAgain(p)
    \/ \E p \in DOMAIN proc : AwaitSelectExpense(p)
    \/ \E p \in DOMAIN proc : AwaitSelectIncome(p)
    \/ \E p \in DOMAIN proc : AwaitSelectBreakdown(p)
    \/ Tick

SpecSummary == InitSummary /\ [][NextSummary]_vars

-----------------------------------------------------------------------------
(* Overlapping actions: two callers, each calling one action on the           *)
(* transactions or the categories while the other's action may be suspended   *)
(* at an await.                                                               *)

Callers == {1, 2}

\* the transactions in the database: an expense and an income of June
OverlapTransactions ==
    {TransactionRow(1, [category_id |-> 1, amount |-> 23, date |-> <<2024, 6, 15, 9>>,
                        note |-> "lunch"]),
     TransactionRow(2, [category_id |-> 2, amount |-> 17, date |-> <<2024, 6, 15, 8>>,
                        note |-> "pay", type |-> "income"])}

\* arguments of addTransaction: the transactions of June
OverlapTxInputs == {t \in TxInputs : StrftimeYm(t.date) = June}

\* arguments of deleteTransaction: a row of the database, and the first row added
OverlapTxIds == {1, Cardinality(OverlapTransactions) + 1}

InitOverlap ==
    /\ dbCategories = SeedCategories
    /\ dbTransactions = OverlapTransactions
    /\ dbSplitBills = {}
    /\ dbSplitBillMembers = {}
    /\ nextId = [categories |-> Cardinality(SeedCategories) + 1,
                 transactions |-> Cardinality(OverlapTransactions) + 1,
                 split_bills |-> 1,
                 split_bill_members |-> 1]
    /\ transactions = <<>>
    /\ categories = <<>>
    /\ splitBills = <<>>
    /\ balance = 0
    /\ totalMonth = 0
    /\ totalIncome = 0
    /\ totalExpense = 0
    /\ isLoading = FALSE
    /\ now = June
    /\ proc = [p \in Callers |-> Idle]
    /\ calls = 0
    /\ lastSummary = <<>>
    /\ modal = NotShown
    /\ screen = NotMounted

\* the one call of a caller
FirstCall(p) == proc[p].pc = "idle"

NextOverlap ==
    \/ \E p \in DOMAIN proc : \E transaction \in OverlapTxInputs :
            FirstCall(p) /\ CallAddTransaction(p, transaction)
    \/ \E p \in DOMAIN proc : \E id \in OverlapTxIds :
            FirstCall(p) /\ CallDeleteTransaction(p, id)
    \/ \E p \in DOMAIN proc : \E id \in 1..Cardinality(SeedCategories) :
            FirstCall(p) /\ CallDeleteCategory(p, id)
    \/ \E p \in DOMAIN proc : \E arg \in SummaryInputs :
            FirstCall(p) /\ CallCalculateMonthSummary(p, arg)
    \/ \E p \in DOMAIN proc : \E transaction \in OverlapTxInputs :
            FirstCall(p) /\ CallAddExpense(p, transaction)
    \/ \E p \in DOMAIN proc : \E arg \in SummaryInputs :
            FirstCall(p) /\ CallCalculateTotalMonth(p, arg)
    \/ \E p \in DOMAIN proc : AwaitInsertTransaction(p)
    \/ \E p \in DOMAIN proc : AwaitSelectRecent(p)
    \/ \E p \in DOMAIN proc : AwaitDeleteTransaction(p)
    \/ \E p \in DOMAIN proc : AwaitDeleteCategoryTransactions(p)
    \/ \E p \in DOMAIN proc : AwaitDeleteCategoryRow(p)
    \/ \E p \in DOMAIN proc : AwaitSelectCategories(p)
    \/ \E p \in DOMAIN proc : AwaitSelectExpense(p)
    \/ \E p \in DOMAIN proc : AwaitSelectIncome(p)
    \/ \E p \in DOMAIN proc : AwaitSelectBreakdown(p)
    \/ \E p \in DOMAIN proc : ResumeAfterFetchCategories(p)
    \/ \E p \in DOMAIN proc : ResumeAfterFetchRecent(p)
    \/ \E p \in DOMAIN proc : ResumeAfterSummary(p)

SpecOverlap == InitOverlap /\ [][NextOverlap]_vars

-----------------------------------------------------------------------------
(* Properties *)

\* the action of p has returned
Done(p) == proc[p].pc = "done"

\* no statement of the action of p has failed
Clean(p) == proc[p].failedIn = {}

\* the rows of the store dated in a year-month
MonthRows(yearMonth) ==
    {t \in dbTransactions : t.date[1] = yearMonth[1] /\ t.date[2] = yearMonth[2]}

\* a row counts as an expense: type expense or absent
IsExpense(t) == t.type = "expense" \/ t.type = NULL

\* C1: after deleteCategory(id) has completed without a store failure, no
\* transaction of the store and no entry of the transactions cache has
\* category_id = id.
C1_DeleteCategoryLeavesNoReference ==
    \A p \in DOMAIN proc :
        (proc[p].op = "deleteCategory" /\ Done(p) /\ Clean(p)) =>
            /\ \A t \in dbTransactions : t.category_id # proc[p].arg.id
            /\ \A i \in 1..Len(transactions) :
                   transactions[i].category_id # proc[p].arg.id

\* C2: after calculateMonthSummary(month) has completed without a store
\* failure, totalExpense, totalIncome and balance are the sums over the
\* store's rows of that month, every cached category's totalSpent is the sum
\* of its expenses of the month and its percentage is
\* round(100 * totalSpent / totalExpense).
C2_SummaryMatchesStore ==
    \A p \in DOMAIN proc :
        (proc[p].op = "calculateMonthSummary" /\ Done(p) /\ Clean(p)) =>
            LET rows    == MonthRows(proc[p].loc.yearMonth)
                expense == SumAmount({t \in rows : IsExpense(t)})
                income  == SumAmount({t \in rows : t.type = "income"})
            IN  /\ totalExpense = expense
                /\ totalIncome = income
                /\ balance = income - expense
                /\ \A i \in 1..Len(categories) :
                     LET spent == SumAmount({t \in rows : IsExpense(t)
                                               /\ t.category_id = categories[i].id})
                     IN  /\ categories[i].totalSpent = spent
                         /\ expense > 0 =>
                              categories[i].percentage =
                                  (200 * spent + expense) \div (2 * expense)

\* C3 as claimed: whichever database call of an action fails, the action
\* completes normally and the in-memory state is the same as when the action
\* was called.
C3_FailureLeavesStateAsCalled ==
    \A p \in DOMAIN proc :
        (Done(p) /\ ~Clean(p)) => (~proc[p].rejected /\ Snapshot = proc[p].pre)

\* C3 as amended: every action completes normally; a failed statement leaves
\* untouched what its own function would have published: all of the state
\* when the action's own statement fails or the action is not addTransaction /
\* deleteTransaction, the transactions when their re-fetch fails, the totals
\* and categories when a summary query fails; what the other step of
\* addTransaction / deleteTransaction published stays published.
C3_FailureSkipsOnlyItsOwnUpdate ==
    \A p \in DOMAIN proc :
        Done(p) =>
            /\ ~proc[p].rejected
            /\ (~Clean(p) /\ proc[p].op \notin {"addTransaction", "deleteTransaction"})
                   => Snapshot = proc[p].pre
            /\ (proc[p].op \in proc[p].failedIn) => Snapshot = proc[p].pre
            /\ ("fetchRecentTransactions" \in proc[p].failedIn)
                   => transactions = proc[p].pre.transactions
            /\ ("calculateMonthSummary" \in proc[p].failedIn)
                   => /\ categories = proc[p].pre.categories
                      /\ balance = proc[p].pre.balance
                      /\ totalMonth = proc[p].pre.totalMonth
                      /\ totalIncome = proc[p].pre.totalIncome
                      /\ totalExpense = proc[p].pre.totalExpense
            /\ (~Clean(p) /\ proc[p].op \in {"addTransaction", "deleteTransaction"})
                   => splitBills = proc[p].pre.splitBills

\* C3, its case: addTransaction whose insert and re-fetch succeeded and whose
\* summary query failed has returned, with the re-fetched transactions published
C3_Witness ==
    \E p \in DOMAIN proc :
        /\ proc[p].op = "addTransaction"
        /\ Done(p)
        /\ proc[p].failedIn = {"calculateMonthSummary"}
        /\ transactions # proc[p].pre.transactions
        /\ totalExpense = proc[p].pre.totalExpense

\* the member rows of a bill, in the order they were written
BillMembers(billId) == OrderById({m \in dbSplitBillMembers : m.split_bill_id = billId})

\* C4: addSplitBill writes the bill row and then the members in the given
\* order, each referencing the generated bill id; when a member insert fails
\* the bill stays with exactly the members written before it (fewer than N),
\* the rest is never inserted, and a later fetchSplitBills shows the bill.
C4_SplitBillPartialWrite ==
    \A p \in DOMAIN proc :
        /\ (proc[p].op = "addSplitBill" /\ Done(p) /\ proc[p].loc.billId # 0) =>
              LET members == proc[p].arg.members
                  rows    == BillMembers(proc[p].loc.billId)
                  written == Len(members) - Len(proc[p].loc.rest)
              IN  /\ \E b \in dbSplitBills :
                        /\ b.id = proc[p].loc.billId
                        /\ b.name = proc[p].arg.bill.name
                        /\ b.total_amount = proc[p].arg.bill.total_amount
                  /\ Len(rows) = written
                  /\ \A i \in 1..Len(rows) :
                        /\ rows[i].name = members[i].name
                        /\ rows[i].share_amount = members[i].share_amount
                        /\ rows[i].is_me = (IF members[i].is_me THEN 1 ELSE 0)
                  /\ ("addSplitBill" \in proc[p].failedIn) =>
                        (written < Len(members) /\ splitBills = proc[p].pre.splitBills)
                  /\ ("addSplitBill" \notin proc[p].failedIn) => written = Len(members)
        /\ (proc[p].op = "addSplitBill" /\ Done(p) /\ proc[p].loc.billId = 0) =>
              /\ "addSplitBill" \in proc[p].failedIn
              /\ \A m \in dbSplitBillMembers : m.split_bill_id < nextId.split_bills
        /\ (proc[p].op = "fetchSplitBills" /\ Done(p) /\ Clean(p)) =>
              \A b \in dbSplitBills : \E i \in 1..Len(splitBills) : splitBills[i] = b

\* C4, its case: the second of two member inserts failed, and a fetchSplitBills
\* afterwards shows the bill with its one member
C4_Witness ==
    \E p \in DOMAIN proc :
        /\ proc[p].op = "fetchSplitBills"
        /\ Done(p)
        /\ Clean(p)
        /\ Len(splitBills) = 1
        /\ Len(BillMembers(splitBills[1].id)) = 1
        /\ BillMembers(splitBills[1].id)[1].name = MemberMe.name

\* cache holds exactly the n most recent of rows (date descending, then id)
MostRecent(cache, rows, n) ==
    /\ Range(cache) \subseteq rows
    /\ \A i, j \in 1..Len(cache) : i # j => cache[i] # cache[j]
    /\ Len(cache) = IF Cardinality(rows) < n THEN Cardinality(rows) ELSE n
    /\ \A r \in rows \ Range(cache) : \A i \in 1..Len(cache) :
           \/ DateLess(r.date, cache[i].date)
           \/ r.date = cache[i].date /\ r.id < cache[i].id

\* the transactions of the store, each with the name, icon and color of its category
StoreJoined ==
    {[id |-> t.id, category_id |-> t.category_id, amount |-> t.amount, date |-> t.date,
      note |-> t.note, image_uri |-> t.image_uri, type |-> t.type,
      category_name |-> c.name, category_icon |-> c.icon, category_color |-> c.color]
     : <<t, c>> \in {tc \in dbTransactions \X dbCategories : tc[1].category_id = tc[2].id}}

\* C5: after a mutating action that completed without a store failure the
\* cache of its entity class equals the store: the category rows after
\* addCategory / updateCategory / deleteCategory, the 20 most recent joined
\* transactions after addTransaction / deleteTransaction, the split-bill rows
\* after addSplitBill / deleteSplitBill.
C5_CacheEqualsStoreAfterMutation ==
    \A p \in DOMAIN proc :
        (Done(p) /\ Clean(p)) =>
            /\ proc[p].op \in {"addCategory", "updateCategory", "deleteCategory"} =>
                  /\ Range(categories) = dbCategories
                  /\ Len(categories) = Cardinality(dbCategories)
            /\ proc[p].op \in {"addTransaction", "deleteTransaction"} =>
                  MostRecent(transactions, StoreJoined, 20)
            /\ proc[p].op \in {"addSplitBill", "deleteSplitBill"} =>
                  /\ Range(splitBills) = dbSplitBills
                  /\ Len(splitBills) = Cardinality(dbSplitBills)

\* C5, its case: addTransaction has completed on a store of more than 20
\* joined rows and the cache holds 20 of them, the new row among them
C5_Witness ==
    \E p \in DOMAIN proc :
        /\ proc[p].op = "addTransaction"
        /\ Done(p)
        /\ Clean(p)
        /\ Cardinality(StoreJoined) > 20
        /\ Len(transactions) = 20
        /\ \E i \in 1..Len(transactions) : transactions[i].id = SeedTxCount + 1

\* an addTransaction is in flight
AddTransactionInFlight ==
    \E p \in DOMAIN proc : proc[p].op = "addTransaction" /\ InFlight(p)

\* C6: isLoading is true from the call of addTransaction until it completes
\* and false once it has completed, whether the insert succeeded or a
\* database call failed; no step of another action changes isLoading.
C6_BusyFlagFollowsAddTransaction ==
    /\ [](isLoading <=> AddTransactionInFlight)
    /\ [][isLoading' # isLoading =>
            \E p \in DOMAIN proc :
                /\ proc'[p] # proc[p]
                /\ proc'[p].op = "addTransaction"]_vars

\* C6, its case: an addTransaction in which a database call failed has
\* completed and the flag is cleared
C6_Witness ==
    \E p \in DOMAIN proc :
        /\ proc[p].op = "addTransaction"
        /\ Done(p)
        /\ ~Clean(p)
        /\ ~isLoading

\* the totals published when deleteTransaction was called are the summary,
\* for the month it then summarises, of the store as it was before the delete
PublishedBeforeDelete(p) ==
    proc[p].pre.totalExpense =
        SumAmount({t \in MonthRows(proc[p].loc.yearMonth) \cup
                          {r \in proc[p].loc.removed :
                              <<r.date[1], r.date[2]>> = proc[p].loc.yearMonth}
                     : IsExpense(t)})

\* C7 as claimed: when deleteTransaction has deleted a transaction and
\* recomputed the summary, totalExpense is the totalExpense published for
\* that month before, minus the deleted transaction's amount.
C7_DeleteLowersExpenseByAmount ==
    \A p \in DOMAIN proc :
        (/\ proc[p].op = "deleteTransaction"
         /\ Done(p)
         /\ Clean(p)
         /\ proc[p].loc.removed # {}
         /\ PublishedBeforeDelete(p)) =>
            totalExpense = proc[p].pre.totalExpense - SumAmount(proc[p].loc.removed)

\* C7 as amended: totalExpense goes down by the deleted transaction's amount
\* when that transaction is an expense (type expense or absent) dated in the
\* summarised month, and is unchanged when it is an income or dated in
\* another month.
C7_DeleteLowersExpenseOfItsMonth ==
    \A p \in DOMAIN proc :
        (/\ proc[p].op = "deleteTransaction"
         /\ Done(p)
         /\ Clean(p)
         /\ proc[p].loc.removed # {}
         /\ PublishedBeforeDelete(p)) =>
            \A r \in proc[p].loc.removed :
                totalExpense =
                    IF IsExpense(r) /\ <<r.date[1], r.date[2]>> = proc[p].loc.yearMonth
                    THEN proc[p].pre.totalExpense - r.amount
                    ELSE proc[p].pre.totalExpense

\* C7, its case: an expense of the summarised month was deleted after its
\* month's summary had been published
C7_Witness ==
    \E p \in DOMAIN proc :
        /\ proc[p].op = "deleteTransaction"
        /\ Done(p)
        /\ Clean(p)
        /\ PublishedBeforeDelete(p)
        /\ \E r \in proc[p].loc.removed :
              /\ IsExpense(r)
              /\ <<r.date[1], r.date[2]>> = proc[p].loc.yearMonth
              /\ proc[p].pre.totalExpense >= r.amount
              /\ totalExpense = proc[p].pre.totalExpense - r.amount

RECURSIVE SumPercentage(_)
SumPercentage(cats) ==
    IF cats = <<>> THEN 0 ELSE Head(cats).percentage + SumPercentage(Tail(cats))

\* a calculateMonthSummary has completed without a store failure
SummaryDone(p) ==
    proc[p].op = "calculateMonthSummary" /\ Done(p) /\ Clean(p)

\* C8 as claimed: after calculateMonthSummary every category's percentage is
\* in 0..100 and the percentages of all categories sum to at most 100.
C8_PercentagesSumToAtMost100 ==
    \A p \in DOMAIN proc :
        SummaryDone(p) =>
            /\ \A i \in 1..Len(categories) : categories[i].percentage \in 0..100
            /\ SumPercentage(categories) <= 100

\* C8 as amended: every category's percentage is in 0..100 and their sum is
\* at most 100 plus half the number of categories, rounded down (each
\* percentage is rounded on its own, by at most one half).
C8_PercentagesSumWithinRounding ==
    \A p \in DOMAIN proc :
        SummaryDone(p) =>
            /\ \A i \in 1..Len(categories) : categories[i].percentage \in 0..100
            /\ SumPercentage(categories) <= 100 + (Len(categories) \div 2)

\* C8, its case: two categories whose percentages both round up
C8_Witness ==
    \E p \in DOMAIN proc :
        /\ SummaryDone(p)
        /\ Len(categories) = 2
        /\ SumPercentage(categories) = 101

\* C9: for a month whose totalExpense is 0, calculateMonthSummary completes
\* without error and sets percentage = 0 and totalSpent = 0 on every cached
\* category.
C9_NoExpenseGivesZeroPercentages ==
    \A p \in DOMAIN proc :
        (proc[p].op = "calculateMonthSummary" /\ Done(p)) =>
            /\ ~proc[p].rejected
            /\ (Clean(p) /\ totalExpense = 0) =>
                  \A i \in 1..Len(categories) :
                      categories[i].percentage = 0 /\ categories[i].totalSpent = 0

\* C9, its case: a month with income only, summarised with categories cached
C9_Witness ==
    \E p \in DOMAIN proc :
        /\ SummaryDone(p)
        /\ totalExpense = 0
        /\ totalIncome > 0
        /\ Len(categories) = 2
        /\ \A i \in 1..Len(categories) : categories[i].percentage = 0

\* C10: calculateMonthSummary called twice in a row for the same month with
\* no write in between: the second call leaves balance, totalMonth,
\* totalIncome, totalExpense and every category's totalSpent and percentage
\* as the first call left them.
C10_SummaryIdempotent ==
    [][\A p \in DOMAIN proc :
        (/\ proc[p].op = "calculateMonthSummary"
         /\ proc[p].pc = "selectBreakdown"
         /\ proc'[p].pc = "done"
         /\ proc'[p].failedIn = {}
         /\ lastSummary = <<proc[p].loc.yearMonth>>) =>
            /\ balance' = balance
            /\ totalMonth' = totalMonth
            /\ totalIncome' = totalIncome
            /\ totalExpense' = totalExpense
            /\ Len(categories') = Len(categories)
            /\ \A i \in 1..Len(categories) :
                  /\ categories'[i].id = categories[i].id
                  /\ categories'[i].totalSpent = categories[i].totalSpent
                  /\ categories'[i].percentage = categories[i].percentage]_vars

\* C10, its case: the second summary of a month with expenses has completed
C10_Witness ==
    \E p \in DOMAIN proc :
        /\ SummaryDone(p)
        /\ calls >= 2
        /\ now = June
        /\ lastSummary = <<proc[p].loc.yearMonth>>
        /\ totalExpense > 0
        /\ proc[p].pre.totalExpense = totalExpense
        /\ Len(categories) = 2
        /\ proc[p].pre.categories = categories
        /\ categories[1].percentage > 0

\* the row that addCategory called by p has written: the id the store chose,
\* the given name, icon and color, type expense when the type was omitted and
\* budget limit 0 when the budget limit was omitted
AddedWithDefaults(p) ==
    LET given == proc[p].arg.category
    IN  \E c \in dbCategories :
            /\ c.id = nextId.categories - 1
            /\ c.id \notin proc[p].preIds
            /\ c.name = given.name
            /\ c.icon = given.icon
            /\ c.color = given.color
            /\ c.category_type =
                  IF Has(given, "category_type") THEN given.category_type
                  ELSE "expense"
            /\ c.budget_limit =
                  IF Has(given, "budget_limit") THEN given.budget_limit
                  ELSE 0

\* C11, as stated: after every addCategory that completes without a store
\* failure the category table holds exactly one entry more than at the call,
\* the new one with the defaults, and the cache holds exactly one entry more
\* than it held at the call. The cache part fails: the first addCategory of
\* a session finds the cache empty over a table of two rows and leaves it
\* with three entries.
C11_AddCategoryGrowsBothByOne ==
    \A p \in DOMAIN proc :
        (proc[p].op = "addCategory" /\ Done(p) /\ Clean(p)) =>
            /\ AddedWithDefaults(p)
            /\ Cardinality(dbCategories) = Cardinality(proc[p].preIds) + 1
            /\ Len(categories) = Len(proc[p].pre.categories) + 1

\* C11, amended: an addCategory that completes without a store failure adds
\* exactly one row to the category table, duplicate names included; the new
\* row has type expense when the type was omitted and budget limit 0 when the
\* budget limit was omitted; the cache is replaced by the rows of the table,
\* so it holds one entry more than the table held at the call, whatever it
\* held before: it has grown by exactly one entry when, and only when, it was
\* as long as the table at the call.
C11_AddCategoryAddsOneWithDefaults ==
    /\ [](\A p \in DOMAIN proc :
            (proc[p].op = "addCategory" /\ Done(p) /\ Clean(p)) =>
                /\ AddedWithDefaults(p)
                /\ {c.id : c \in dbCategories} =
                      proc[p].preIds \cup {nextId.categories - 1}
                /\ Cardinality(dbCategories) = Cardinality(proc[p].preIds) + 1
                /\ Range(categories) = dbCategories
                /\ Len(categories) = Cardinality(proc[p].preIds) + 1
                /\ (Len(categories) = Len(proc[p].pre.categories) + 1)
                      <=> (Len(proc[p].pre.categories) = Cardinality(proc[p].preIds)))
    /\ [][\A p \in DOMAIN proc :
            (proc[p].pc = "insertCategory" /\ proc'[p].pc = "selectCategories") =>
                /\ Cardinality(dbCategories') = Cardinality(dbCategories) + 1
                /\ dbCategories \subseteq dbCategories']_vars

\* C11, its case: a category of a name already in the table was added with
\* type and budget limit omitted, and the cache has grown by exactly one
\* entry. (The run in which it grows by three is the one that violates the
\* statement above.)
C11_Witness ==
    \E p \in DOMAIN proc :
        /\ proc[p].op = "addCategory"
        /\ Done(p)
        /\ Clean(p)
        /\ ~Has(proc[p].arg.category, "category_type")
        /\ ~Has(proc[p].arg.category, "budget_limit")
        /\ Len(categories) = Len(proc[p].pre.categories) + 1
        /\ \E c, d \in dbCategories :
              /\ c.id # d.id
              /\ c.name = d.name
              /\ c.id = nextId.categories - 1
              /\ c.category_type = "expense"
              /\ c.budget_limit = 0

\* a re-fetch of the transactions has just completed in the action of p
JustFetched(p) ==
    \/ proc[p].op = "fetchRecentTransactions" /\ Done(p) /\ Clean(p)
    \/ /\ proc[p].op \in {"addTransaction", "deleteTransaction"}
       /\ proc[p].pc = "selectExpense"
       /\ Clean(p)

\* C12: the transactions cache never holds more than 20 entries, and after
\* each fetchRecentTransactions it is the 20 (or fewer) most recent
\* transactions of the store that have an existing category, by date
\* descending and then id descending, each with the name, icon and color of
\* its category.
C12_CacheIsRecentWindow ==
    /\ Len(transactions) <= 20
    /\ \A p \in DOMAIN proc :
          JustFetched(p) =>
              /\ MostRecent(transactions, StoreJoined, 20)
              /\ \A i, j \in 1..Len(transactions) :
                    i < j =>
                        \/ DateLess(transactions[j].date, transactions[i].date)
                        \/ /\ transactions[j].date = transactions[i].date
                           /\ transactions[j].id < transactions[i].id

\* C12, its case: fetchRecentTransactions on a store of 21 transactions, one
\* of them of a category that does not exist, has filled the cache with 20
C12_Witness ==
    \E p \in DOMAIN proc :
        /\ proc[p].op = "fetchRecentTransactions"
        /\ Done(p)
        /\ Clean(p)
        /\ Len(transactions) = 20
        /\ Cardinality(dbTransactions) = 21
        /\ \E t \in dbTransactions :
              /\ \A c \in dbCategories : c.id # t.category_id
              /\ \A i \in 1..Len(transactions) : transactions[i].id # t.id

\* C13: the totals are published together, so in every reachable state, also
\* between the steps of overlapping actions and after a failure,
\* balance = totalIncome - totalExpense and totalMonth = balance.
C13_TotalsConsistent ==
    /\ balance = totalIncome - totalExpense
    /\ totalMonth = balance

\* C13, its case: one caller's summary has been published, with expenses and
\* income, while the other caller's action is suspended between its summary
\* queries
C13_Witness ==
    \E p, q \in DOMAIN proc :
        /\ p # q
        /\ Done(q)
        /\ proc[p].pc \in {"selectIncome", "selectBreakdown"}
        /\ totalExpense > 0
        /\ totalIncome > 0
        /\ totalExpense # totalIncome
        /\ proc[p].loc.expenseResult # totalExpense

\* the value updateCategory writes for a field of the partial
GivenOrEmpty(partial, field) == IF Has(partial, field) THEN partial[field] ELSE ""

\* C14: updateCategory(id, partial) sets the name, icon and color of the
\* category with that id to the given value, or to the empty string when
\* omitted; its type and budget limit, every other category, the transactions
\* and the split bills are unchanged.
C14_UpdateCategoryFrame ==
    /\ [][\A p \in DOMAIN proc :
            (proc[p].pc = "updateCategory" /\ proc'[p].pc = "selectCategories") =>
                LET id      == proc[p].arg.id
                    partial == proc[p].arg.category
                IN  /\ Cardinality(dbCategories') = Cardinality(dbCategories)
                    /\ \A c \in dbCategories :
                          IF c.id = id
                          THEN \E d \in dbCategories' :
                                  /\ d.id = id
                                  /\ d.name = GivenOrEmpty(partial, "name")
                                  /\ d.icon = GivenOrEmpty(partial, "icon")
                                  /\ d.color = GivenOrEmpty(partial, "color")
                                  /\ d.category_type = c.category_type
                                  /\ d.budget_limit = c.budget_limit
                          ELSE c \in dbCategories'
                    /\ dbTransactions' = dbTransactions
                    /\ dbSplitBills' = dbSplitBills
                    /\ dbSplitBillMembers' = dbSplitBillMembers]_vars
    /\ [][\A p \in DOMAIN proc :
            (proc[p].op = "updateCategory" /\ proc'[p].op = "updateCategory") =>
                /\ dbTransactions' = dbTransactions
                /\ dbSplitBills' = dbSplitBills
                /\ dbSplitBillMembers' = dbSplitBillMembers
                /\ transactions' = transactions
                /\ splitBills' = splitBills
                /\ proc[p].pc # "updateCategory" => dbCategories' = dbCategories]_vars

\* C14, its case: a category was updated with a name and a color and no icon
C14_Witness ==
    \E p \in DOMAIN proc :
        /\ proc[p].op = "updateCategory"
        /\ Done(p)
        /\ Clean(p)
        /\ ~Has(proc[p].arg.category, "icon")
        /\ \E c \in dbCategories :
              /\ c.id = proc[p].arg.id
              /\ c.name = proc[p].arg.category.name
              /\ c.icon = ""
              /\ c.category_type = "expense"
        /\ \E c \in dbCategories : c.id # proc[p].arg.id /\ c.icon # ""

\* the action of p was called through an alias
ViaAlias(p) == Has(proc[p].arg, "alias")

\* no other caller has called an action
Alone(p) == \A q \in DOMAIN proc \ {p} : proc[q].pc = "idle"

\* the totals are the sums over the rows of the store dated in a year-month
TotalsOf(yearMonth) ==
    /\ totalExpense = SumAmount({t \in MonthRows(yearMonth) : IsExpense(t)})
    /\ totalIncome = SumAmount({t \in MonthRows(yearMonth) : t.type = "income"})
    /\ balance = totalIncome - totalExpense
    /\ totalMonth = balance

\* C15: addExpense does what addTransaction does, for an expense and for an
\* income: the busy flag is raised for the duration of the call, the row is
\* written as given (type as given, expense when omitted), the transactions
\* are re-fetched and the summary of the current month is published; and
\* calculateTotalMonth publishes the summary of the month as
\* calculateMonthSummary does.
C15_AliasesBehaveAsTheirTargets ==
    \A p \in DOMAIN proc :
        (ViaAlias(p) /\ Alone(p)) =>
            /\ proc[p].arg.alias = "addExpense" =>
                  /\ InFlight(p) => isLoading
                  /\ Done(p) => ~isLoading
                  /\ (Done(p) /\ Clean(p)) =>
                        LET given == proc[p].arg.transaction
                        IN  /\ dbTransactions = OverlapTransactions \cup
                                  {[id          |-> Cardinality(OverlapTransactions) + 1,
                                    category_id |-> given.category_id,
                                    amount      |-> given.amount,
                                    date        |-> given.date,
                                    note        |-> given.note,
                                    image_uri   |-> NULL,
                                    type        |-> IF Has(given, "type") THEN given.type
                                                    ELSE "expense"]}
                            /\ MostRecent(transactions, StoreJoined, 20)
                            /\ TotalsOf(now)
            /\ proc[p].arg.alias = "calculateTotalMonth" =>
                  /\ ~isLoading
                  /\ dbTransactions = OverlapTransactions
                  /\ (Done(p) /\ Clean(p)) =>
                        TotalsOf(IF Has(proc[p].arg, "selectedMonth")
                                 THEN proc[p].arg.selectedMonth ELSE now)

\* C15, its case: an income added through addExpense is stored and counted
\* as an income
C15_Witness ==
    \E p \in DOMAIN proc :
        /\ ViaAlias(p)
        /\ Alone(p)
        /\ proc[p].arg.alias = "addExpense"
        /\ Has(proc[p].arg.transaction, "type")
        /\ Done(p)
        /\ Clean(p)
        /\ \E t \in dbTransactions :
              t.id = Cardinality(OverlapTransactions) + 1 /\ t.type = "income"
        /\ totalIncome > SumAmount({t \in OverlapTransactions : t.type = "income"})

\* r is the row that addTransaction writes for the transaction given
AddedRow(r, given) ==
    /\ r.category_id = given.category_id
    /\ r.amount = given.amount
    /\ r.date = given.date
    /\ r.note = given.note
    /\ r.type = IF Has(given, "type") THEN given.type ELSE "expense"

\* both callers have called addTransaction and both calls have completed
\* without a store failure
BothAdded(p, q) ==
    /\ p # q
    /\ proc[p].op = "addTransaction" /\ Done(p) /\ Clean(p)
    /\ proc[q].op = "addTransaction" /\ Done(q) /\ Clean(q)

\* C16: two overlapping addTransaction calls both insert their row under
\* every interleaving; each call re-fetches the transactions and publishes
\* the summary of its own queries; when both have completed the cache and the
\* totals are those of the re-fetch and of the summary that completed last.
C16_OverlappingAddsLastWriterWins ==
    /\ [](\A p, q \in DOMAIN proc :
            BothAdded(p, q) =>
                /\ Cardinality(dbTransactions) = Cardinality(OverlapTransactions) + 2
                /\ \E r, s \in dbTransactions \ OverlapTransactions :
                      /\ r.id # s.id
                      /\ AddedRow(r, proc[p].arg.transaction)
                      /\ AddedRow(s, proc[q].arg.transaction)
                /\ MostRecent(transactions, StoreJoined, 20)
                /\ \E w \in {p, q} :
                      /\ totalExpense = proc[w].loc.expenseResult
                      /\ totalIncome = proc[w].loc.incomeResult)
    /\ [][\A p \in DOMAIN proc :
            (/\ proc[p].op = "addTransaction"
             /\ proc[p].pc # "afterSummary"
             /\ proc'[p].pc = "afterSummary"
             /\ proc'[p].failedIn = {}) =>
                /\ proc[p].pc = "selectBreakdown"
                /\ totalExpense' = proc[p].loc.expenseResult
                /\ totalIncome' = proc[p].loc.incomeResult
                /\ balance' = totalIncome' - totalExpense'
                /\ totalMonth' = balance']_vars
    /\ [][/\ <<balance, totalMonth, totalIncome, totalExpense>>' #
                <<balance, totalMonth, totalIncome, totalExpense>>
             => \E p \in DOMAIN proc :
                   proc[p].pc = "selectBreakdown" /\ proc'[p].pc # "selectBreakdown"
          /\ (\E p \in DOMAIN proc :
                /\ proc[p].op = "addTransaction"
                /\ proc[p].pc # "done"
                /\ proc'[p].pc = "done"
                /\ proc'[p].failedIn = {})
             => \E p \in DOMAIN proc : proc[p].pc = "afterSummary" /\ ~isLoading'
          /\ transactions' # transactions
             => \E p \in DOMAIN proc :
                   proc[p].pc = "selectRecent" /\ proc'[p].pc # "selectRecent"]_vars

\* C16, its case: both calls have completed and the totals are those of the
\* call whose summary completed last, computed before the other row was
\* written
C16_Witness ==
    \E p, q \in DOMAIN proc :
        /\ BothAdded(p, q)
        /\ totalExpense = proc[p].loc.expenseResult
        /\ proc[q].loc.expenseResult > proc[p].loc.expenseResult
        /\ Len(transactions) = Cardinality(OverlapTransactions) + 2

\* the member rows that reference bill id
MembersOf(members, id) == {m \in members : m.split_bill_id = id}

SpentIn(rows, categoryId) ==
    SumAmount({t \in rows : IsExpense(t) /\ t.category_id = categoryId})

\* C18: a transaction added with its type omitted is stored as an expense;
\* after the summary of its month it is counted in totalExpense and in its
\* category's totalSpent and not in totalIncome; a transaction of type income
\* is counted in totalIncome only, in no category's totalSpent or percentage.
C18_TypeDecidesWhereAmountCounts ==
    \A p \in DOMAIN proc :
        (proc[p].op = "addTransaction" /\ Done(p) /\ Clean(p)) =>
            \E r \in dbTransactions :
                LET given  == proc[p].arg.transaction
                    others == MonthRows(proc[p].loc.yearMonth) \ {r}
                    income == Has(given, "type") /\ given.type = "income"
                IN  /\ r.id = nextId.transactions - 1
                    /\ r.amount = given.amount
                    /\ r.category_id = given.category_id
                    /\ ~Has(given, "type") => r.type = "expense"
                    /\ income => r.type = "income"
                    /\ StrftimeYm(r.date) = proc[p].loc.yearMonth =>
                          /\ totalExpense =
                                SumAmount({t \in others : IsExpense(t)})
                                + (IF income THEN 0 ELSE r.amount)
                          /\ totalIncome =
                                SumAmount({t \in others : t.type = "income"})
                                + (IF income THEN r.amount ELSE 0)
                          /\ \A i \in 1..Len(categories) :
                                /\ categories[i].totalSpent =
                                      SpentIn(others, categories[i].id)
                                      + (IF ~income /\ categories[i].id = r.category_id
                                         THEN r.amount ELSE 0)
                                /\ categories[i].percentage =
                                      Percentage(categories[i].totalSpent, totalExpense)

\* C18, its case: an income was added to a category that is cached, in a
\* month with no expense
C18_Witness ==
    \E p \in DOMAIN proc :
        /\ proc[p].op = "addTransaction"
        /\ Done(p)
        /\ Clean(p)
        /\ Has(proc[p].arg.transaction, "type")
        /\ proc[p].arg.transaction.type = "income"
        /\ totalIncome = proc[p].arg.transaction.amount
        /\ totalExpense = 0
        /\ \E i \in 1..Len(categories) :
              /\ categories[i].id = proc[p].arg.transaction.category_id
              /\ categories[i].totalSpent = 0
              /\ categories[i].percentage = 0

\* C18, its other case: an expense with its type omitted was added to a
\* category that is cached
C18_WitnessOmitted ==
    \E p \in DOMAIN proc :
        /\ proc[p].op = "addTransaction"
        /\ Done(p)
        /\ Clean(p)
        /\ ~Has(proc[p].arg.transaction, "type")
        /\ totalIncome = 0
        /\ totalExpense = proc[p].arg.transaction.amount
        /\ \E i \in 1..Len(categories) :
              /\ categories[i].id = proc[p].arg.transaction.category_id
              /\ categories[i].totalSpent = proc[p].arg.transaction.amount
              /\ categories[i].percentage = 100

\* C19: from a store in which every transaction references an existing
\* category, and with addTransaction only called with a category that exists
\* at the call, every transaction of the store references an existing
\* category once all actions have completed, however deleteCategory overlaps
\* with addTransaction and deleteTransaction.
C19_ReferencesSurviveOverlap ==
    (/\ \A p \in DOMAIN proc : ~InFlight(p)
     /\ \A p \in DOMAIN proc :
            proc[p].op = "addTransaction" =>
                proc[p].arg.transaction.category_id \in proc[p].preIds) =>
        \A t \in dbTransactions : \E c \in dbCategories : c.id = t.category_id

\* C20: with overlapping addTransaction calls, isLoading is true in every
\* state in which an addTransaction is in flight, and false only when none is.
C20_BusyWhileAnyAddInFlight ==
    AddTransactionInFlight => isLoading

\* the action of p was called after the summary of q had been published: the
\* totals start at zero and only a summary publishes totals
CalledAfterSummary(p, q) ==
    /\ proc[q].op = "calculateMonthSummary"
    /\ Done(q)
    /\ Clean(q)
    /\ proc[p].pre.totalExpense # 0 \/ proc[p].pre.totalIncome # 0

\* C21: after deleteCategory(id) has completed without a store failure, with
\* no other action in flight since the summary published last, totalExpense,
\* totalIncome and balance are the sums over the rows that remain in the store
\* for the month summarised last.
C21_TotalsFollowDeleteCategory ==
    \A p \in DOMAIN proc : \A q \in DOMAIN proc \ {p} :
        (/\ proc[p].op = "deleteCategory"
         /\ Done(p)
         /\ Clean(p)
         /\ CalledAfterSummary(p, q)) =>
            TotalsOf(proc[q].loc.yearMonth)

-----------------------------------------------------------------------------
(* Overlapping callers on a loaded application: the caches have been fetched *)
(* and agree with the store before the callers act.                          *)

InitLoaded ==
    /\ dbCategories = SeedCategories
    /\ dbTransactions = OverlapTransactions
    /\ dbSplitBills = {}
    /\ dbSplitBillMembers = {}
    /\ nextId = [categories |-> Cardinality(SeedCategories) + 1,
                 transactions |-> Cardinality(OverlapTransactions) + 1,
                 split_bills |-> 1,
                 split_bill_members |-> 1]
    /\ transactions = SelectRecentTransactions(OverlapTransactions, SeedCategories)
    /\ categories = SelectCategories(SeedCategories)
    /\ splitBills = SelectSplitBills({})
    /\ balance = 0
    /\ totalMonth = 0
    /\ totalIncome = 0
    /\ totalExpense = 0
    /\ isLoading = FALSE
    /\ now = June
    /\ proc = [p \in Callers |-> Idle]
    /\ calls = 0
    /\ lastSummary = <<>>
    /\ modal = NotShown
    /\ screen = NotMounted

SpecLoaded == InitLoaded /\ [][NextOverlap]_vars

\* the caches agree with the store: the ids of the category cache are the ids
\* of the categories table, the split-bill cache holds the split_bills table,
\* the transaction cache the 20 most recent joined transactions
CachesAgree ==
    /\ {categories[i].id : i \in 1..Len(categories)} = {c.id : c \in dbCategories}
    /\ Len(categories) = Cardinality(dbCategories)
    /\ Range(splitBills) = dbSplitBills
    /\ Len(splitBills) = Cardinality(dbSplitBills)
    /\ MostRecent(transactions, StoreJoined, RecentLimit)

\* C22: from caches that agree with the store, under any interleaving of
\* overlapping actions in which no database call fails, once every action has
\* completed the caches agree with the store again.
C22_CachesAgreeOnceAllDone ==
    (\A p \in DOMAIN proc : ~InFlight(p) /\ Clean(p)) => CachesAgree

\* a summary has been published: the totals start at zero and only
\* calculateMonthSummary sets them
SummaryPublished == totalExpense # 0 \/ totalIncome # 0

\* a cached category carries the stats of the published totalExpense
CarriesStats(cat) ==
    /\ Has(cat, "totalSpent")
    /\ Has(cat, "percentage")
    /\ cat.percentage = Percentage(cat.totalSpent, totalExpense)

\* C23: once a summary has been published, every category of the cache
\* carries a totalSpent and the percentage of it in the published
\* totalExpense, also after a later fetchCategories, addCategory,
\* updateCategory or deleteCategory; and a step of calculateMonthSummary
\* leaves the ids of the cached categories, transactions, splitBills and
\* isLoading as they were.
C23_CategoriesKeepStats ==
    /\ [](SummaryPublished =>
            \A i \in 1..Len(categories) : CarriesStats(categories[i]))
    /\ [][\A p \in DOMAIN proc :
            (/\ proc[p].op = "calculateMonthSummary"
             /\ proc[p].pc \in {"selectExpense", "selectIncome", "selectBreakdown"}
             /\ proc'[p] # proc[p]) =>
                /\ Len(categories') = Len(categories)
                /\ \A i \in 1..Len(categories) : categories'[i].id = categories[i].id
                /\ transactions' = transactions
                /\ splitBills' = splitBills
                /\ isLoading' = isLoading]_vars

-----------------------------------------------------------------------------
(* Text and dates of the components.  A string is the sequence of its        *)
(* characters; a JS Date is <<year, month, day>> with the month from 0, and  *)
(* the store's date string is <<year, month, day, hour>> with the month       *)
(* from 1; a Date object is <<year, month, day, hour>> in local time with the *)
(* month from 0.                                                              *)

\* the white space among the characters of the model's texts: space, tab,
\* line feed and carriage return
WhiteSpace == {" ", "\t", "\n", "\r"}

\* String.prototype.trim()
RECURSIVE TrimStart(_)
TrimStart(s) ==
    IF s # <<>> /\ Head(s) \in WhiteSpace THEN TrimStart(Tail(s)) ELSE s

RECURSIVE TrimEnd(_)
TrimEnd(s) ==
    IF s # <<>> /\ s[Len(s)] \in WhiteSpace THEN TrimEnd(SubSeq(s, 1, Len(s) - 1)) ELSE s

Trim(s) == TrimEnd(TrimStart(s))

\* the lower-case letter of each upper-case letter of the model's texts
LowerCaseOf ==
    [c \in {"D", "F", "O", "P", "S"} |->
        CASE c = "D" -> "d" [] c = "F" -> "f" [] c = "O" -> "o"
          [] c = "P" -> "p" [] c = "S" -> "s"]

\* String.prototype.toLowerCase()
ToLowerCase(s) ==
    [i \in 1..Len(s) |-> IF s[i] \in DOMAIN LowerCaseOf THEN LowerCaseOf[s[i]] ELSE s[i]]

\* the year is a leap year of the Gregorian calendar
IsLeapYear(year) == (year % 4 = 0 /\ year % 100 # 0) \/ year % 400 = 0

\* the Gregorian calendar: the last day of a month, month from 0
LastDayOf(month, year) ==
    IF month = 1 THEN (IF IsLeapYear(year) THEN 29 ELSE 28)
    ELSE IF month \in {3, 5, 8, 10} THEN 30
    ELSE 31

\* the calendar date a Date object settles on when its fields are set to
\* year, a month from 0 to 12 and a day from 0 to 31: a day past the end of
\* the month runs into the next month, day 0 is the last day of the month
\* before, month 12 the January after
DateOf(year, month, day) ==
    IF month = 12 THEN
        IF day = 0 THEN <<year, 11, 31>> ELSE <<year + 1, 0, day>>
    ELSE IF day = 0
    THEN IF month = 0 THEN <<year - 1, 11, 31>>
         ELSE <<year, month - 1, LastDayOf(month - 1, year)>>
    ELSE IF day <= LastDayOf(month, year) THEN <<year, month, day>>
    ELSE IF month = 11 THEN <<year + 1, 0, day - 31>>
    ELSE <<year, month + 1, day - LastDayOf(month, year)>>

\* getDaysInMonth(month, year): new Date(year, month + 1, 0).getDate()
getDaysInMonth(month, year) == DateOf(year, month + 1, 0)[3]

\* Date.prototype.setDate / setMonth / setFullYear: the time of day is kept
SetDate(d, day) == DateOf(d[1], d[2], day) \o <<d[4]>>
SetMonth(d, month) == DateOf(d[1], month, d[3]) \o <<d[4]>>
SetFullYear(d, year) == DateOf(year, d[2], d[3]) \o <<d[4]>>

\* the offsets from UTC, in hours, of the zones the device may be set to
Zones == {-4, 0, 7}

\* date.toISOString() on a device of the given zone: the date and the hour in
\* UTC; the day before the local date when the local hour is less than an
\* offset east of UTC, the day after when it is within an offset west of UTC
\* of midnight
ToISOString(d, zone) ==
    LET hour == d[4] - zone
        utc  == IF hour < 0 THEN DateOf(d[1], d[2], d[3] - 1)
                ELSE IF hour > 23 THEN DateOf(d[1], d[2], d[3] + 1)
                ELSE <<d[1], d[2], d[3]>>
    IN  <<utc[1], utc[2] + 1, utc[3], hour % 24>>

\* the days of the month and the hours of the day at which the components are
\* used: the first day, a day in the middle and the last day of June; early
\* in the morning and late in the evening
ClockDays == {1, 15, 30}
ClockHours == {3, 23}

\* new Date(), with the year and month of the device clock
NewDate(day, hour) == <<now[1], now[2] - 1, day, hour>>

\* useExpenseStore().fetchCategories(db) entered from a component, up to its
\* await
EnterFetchCategories(p) ==
    /\ CanCall(p)
    /\ proc' = [proc EXCEPT ![p] = Called("fetchCategories", "selectCategories", <<>>, NoLocals)]
    /\ calls' = calls + 1
    /\ lastSummary' = <<>>

\* useExpenseStore().addExpense(db, transaction) entered from a component:
\* addTransaction up to its first await
EnterAddExpense(p, transaction) ==
    /\ CanCall(p)
    /\ isLoading' = TRUE
    /\ proc' = [proc EXCEPT ![p] =
                 Called("addTransaction", "insertTransaction",
                        [transaction |-> transaction, alias |-> "addExpense"], NoLocals)]
    /\ calls' = calls + 1
    /\ lastSummary' = <<>>

-----------------------------------------------------------------------------
(* SmartTextModal (src/components/SmartTextModal.tsx): free text is parsed   *)
(* by the external service and the result, once validated, is added through  *)
(* addExpense.                                                               *)

Food   == <<"F", "o", "o", "d">>
Salary == <<"s", "a", "l", "a", "r", "y">>
Kopi   == <<"k", "o", "p", "i">>

\* the categories of the store the modal works on: an expense and an income
\* category, and an income category with the name of the expense category
ModalCategories ==
    {CategoryRow(1, [name |-> Food, icon |-> "emoji:F", color |-> "#f00"]),
     CategoryRow(2, [name |-> Salary, icon |-> "emoji:S", color |-> "#0f0",
                     category_type |-> "income"]),
     CategoryRow(3, [name |-> Food, icon |-> "emoji:V", color |-> "#00f",
                     category_type |-> "income"])}

\* texts typed into the modal
ModalInputs == {<<>>, <<" ">>, <<"\n">>, Kopi \o <<" ">>}

\* what parseExpenseText returns: records with every choice of amount, name,
\* category and type, and records that lack one of the fields
ParseFull ==
    [amount : {0, -5, 23},
     name : {<<>>, <<" ">>, <<"\t">>, Kopi},
     category : {<<"F", "O", "O", "D">>, <<"S", "a", "l", "a", "r", "y">>,
                 <<"P", "e", "t", "s">>},
     type : {"expense", "income"}]

ParseResults ==
    ParseFull
    \cup {[amount |-> r.amount, name |-> r.name, category |-> r.category] : r \in ParseFull}
    \cup {[name |-> Kopi, category |-> Food, type |-> "expense"],
          [amount |-> 23, category |-> Food, type |-> "expense"],
          [amount |-> 23, name |-> Kopi, type |-> "expense"]}

\* the ways the await of parseExpenseText ends: it throws, it resolves to
\* null, or it resolves to a result
ParseOutcomes ==
    {[kind |-> "throws"], [kind |-> "null"]}
    \cup {[kind |-> "result", result |-> r] : r \in ParseResults}

\* the modal as it opens
ModalOpened ==
    [visible |-> TRUE, input |-> <<>>, loading |-> FALSE, pc |-> "idle",
     outcome |-> [kind |-> "none"], categories |-> <<>>]

\* a slip of the lookup: the category is searched among all categories
CategoryListAnyType(cats, result) == cats

\* result.type === 'income' ? categories.filter(c => c.category_type === 'income')
\*                          : categories.filter(c => c.category_type !== 'income')
CategoryList(cats, result) ==
    IF Has(result, "type") /\ result.type = "income"
    THEN SelectSeq(cats, LAMBDA c : c.category_type = "income")
    ELSE SelectSeq(cats, LAMBDA c : c.category_type # "income")

\* the positions of categoryList whose name is result.category up to case
NameMatches(categoryList, result) ==
    {i \in 1..Len(categoryList) :
        ToLowerCase(categoryList[i].name) = ToLowerCase(result.category)}

\* !result.amount || result.amount <= 0
InvalidAmount(result) == ~Has(result, "amount") \/ result.amount = 0 \/ result.amount <= 0

\* !result.name || result.name.trim() === ''
EmptyName(result) == ~Has(result, "name") \/ result.name = <<>> \/ Trim(result.name) = <<>>

\* handleParse gives up after the await: the parser threw or returned null, a
\* validation failed, no category matched, or result.category is undefined
\* and toLowerCase throws
GivesUp(outcome, cats) ==
    \/ outcome.kind # "result"
    \/ InvalidAmount(outcome.result)
    \/ EmptyName(outcome.result)
    \/ CategoryList(cats, outcome.result) # <<>> /\ ~Has(outcome.result, "category")
    \/ CategoryList(cats, outcome.result) = <<>>
    \/ NameMatches(CategoryList(cats, outcome.result), outcome.result) = {}

\* categoryList.find(c => c.name.toLowerCase() === result.category.toLowerCase())
FoundCategory(cats, result) ==
    LET categoryList == CategoryList(cats, result)
        first == CHOOSE i \in NameMatches(categoryList, result) :
                    \A j \in NameMatches(categoryList, result) : i <= j
    IN  categoryList[first]

\* the transaction handed to addExpense
ParsedTransaction(result, category, date) ==
    [amount      |-> result.amount,
     category_id |-> category.id,
     date        |-> date,
     note        |-> result.name,
     type        |-> IF Has(result, "type") THEN result.type ELSE "expense"]

\* onRequestClose={onClose}, the backdrop's and the X button's onPress={onClose}:
\* none is disabled while loading; the parent hides the modal, which is shown
\* once in a run
CloseModal ==
    /\ modal.visible
    /\ modal' = [modal EXCEPT !.visible = FALSE]
    /\ UNCHANGED <<dbVars, memVars, isLoading, now, proc, calls, lastSummary, screen>>

\* onChangeText={setInput}, editable={!loading}
SetInput(text) ==
    /\ modal.visible
    /\ ~modal.loading
    /\ modal' = [modal EXCEPT !.input = text]
    /\ UNCHANGED <<dbVars, memVars, isLoading, now, proc, calls, lastSummary, screen>>

\* the parse button, disabled={loading || !input.trim()}: handleParse up to
\* the await of parseExpenseText
PressParse ==
    /\ modal.visible
    /\ ~modal.loading
    /\ Trim(modal.input) # <<>>
    /\ modal' = IF Trim(modal.input) = <<>>
                THEN modal
                ELSE [modal EXCEPT !.loading = TRUE, !.pc = "parse",
                                   !.categories = categories]
    /\ UNCHANGED <<dbVars, memVars, isLoading, now, proc, calls, lastSummary, screen>>

\* await parseExpenseText(...), the validations, and addExpense up to its
\* first await; every return and the catch end in setLoading(false)
AwaitParseExpenseText(p) ==
    /\ modal.pc = "parse"
    /\ \E outcome \in ParseOutcomes :
        IF GivesUp(outcome, modal.categories)
        THEN /\ modal' = [modal EXCEPT !.loading = FALSE, !.pc = "idle",
                                       !.outcome = outcome]
             /\ UNCHANGED <<isLoading, proc, calls, lastSummary>>
        ELSE \E day \in ClockDays, hour \in ClockHours, zone \in Zones :
             /\ EnterAddExpense(p, ParsedTransaction(
                    outcome.result,
                    FoundCategory(modal.categories, outcome.result),
                    ToISOString(NewDate(day, hour), zone)))
             /\ modal' = [modal EXCEPT !.pc = "addExpense", !.outcome = outcome]
    /\ UNCHANGED <<dbVars, memVars, now, screen>>

\* await addExpense(...) resumes: Alert, setInput(''), onClose(); or the
\* catch; finally setLoading(false)
AwaitAddExpenseOfModal(p) ==
    /\ modal.pc = "addExpense"
    /\ proc[p].pc = "done"
    /\ modal' = IF proc[p].rejected
                THEN [modal EXCEPT !.loading = FALSE, !.pc = "idle"]
                ELSE [modal EXCEPT !.loading = FALSE, !.pc = "idle",
                                   !.input = <<>>, !.visible = FALSE]
    /\ UNCHANGED <<dbVars, memVars, isLoading, now, proc, calls, lastSummary, screen>>

InitSmartText ==
    /\ dbCategories = ModalCategories
    /\ dbTransactions = {}
    /\ dbSplitBills = {}
    /\ dbSplitBillMembers = {}
    /\ nextId = [categories |-> Cardinality(ModalCategories) + 1,
                 transactions |-> 1,
                 split_bills |-> 1,
                 split_bill_members |-> 1]
    /\ transactions = <<>>
    /\ categories = SelectCategories(ModalCategories)
    /\ splitBills = <<>>
    /\ balance = 0
    /\ totalMonth = 0
    /\ totalIncome = 0
    /\ totalExpense = 0
    /\ isLoading = FALSE
    /\ now = June
    /\ proc = [p \in {1} |-> Idle]
    /\ calls = 0
    /\ lastSummary = <<>>
    /\ modal = ModalOpened
    /\ screen = NotMounted

NextSmartText ==
    \/ CloseModal
    \/ \E text \in ModalInputs : SetInput(text)
    \/ PressParse
    \/ \E p \in DOMAIN proc : AwaitParseExpenseText(p)
    \/ \E p \in DOMAIN proc : AwaitAddExpenseOfModal(p)
    \/ \E p \in DOMAIN proc : AwaitInsertTransaction(p)
    \/ \E p \in DOMAIN proc : AwaitSelectRecent(p)
    \/ \E p \in DOMAIN proc : AwaitSelectExpense(p)
    \/ \E p \in DOMAIN proc : AwaitSelectIncome(p)
    \/ \E p \in DOMAIN proc : AwaitSelectBreakdown(p)
    \/ \E p \in DOMAIN proc : ResumeAfterFetchRecent(p)
    \/ \E p \in DOMAIN proc : ResumeAfterSummary(p)

SpecSmartText == InitSmartText /\ [][NextSmartText]_vars

\* two texts are equal up to the case of their letters
SameIgnoringCase(a, b) ==
    /\ Len(a) = Len(b)
    /\ \A i \in 1..Len(a) :
          \/ a[i] = b[i]
          \/ a[i] \in DOMAIN LowerCaseOf /\ LowerCaseOf[a[i]] = b[i]
          \/ b[i] \in DOMAIN LowerCaseOf /\ LowerCaseOf[b[i]] = a[i]

\* the parse result is one that the claim lets through, for the category c
LetsThrough(result, c) ==
    /\ Has(result, "amount") /\ result.amount > 0
    /\ Has(result, "name") /\ \E i \in 1..Len(result.name) : result.name[i] \notin WhiteSpace
    /\ Has(result, "category") /\ SameIgnoringCase(c.name, result.category)
    /\ IF Has(result, "type") /\ result.type = "income"
       THEN c.category_type = "income"
       ELSE c.category_type # "income"

\* C24: handleParse calls addExpense only for a parse result that is not
\* null, has an amount above 0, a name that is not blank and a category equal
\* up to case to the name of a category of the result's type (the income
\* categories for income, the others otherwise); the transaction has that
\* category's id and the result's type (expense when the result has none);
\* otherwise, and when the parser throws, no transaction is added; and
\* loading is false whenever handleParse is not running.
C24_HandleParseAddsOnlyValidated ==
    /\ \A p \in DOMAIN proc :
          proc[p].pc # "idle" =>
              /\ modal.outcome.kind = "result"
              /\ \E i \in 1..Len(modal.categories) :
                    /\ LetsThrough(modal.outcome.result, modal.categories[i])
                    /\ proc[p].arg.transaction.category_id = modal.categories[i].id
              /\ proc[p].arg.transaction.amount = modal.outcome.result.amount
              /\ proc[p].arg.transaction.type \in {"expense", "income"}
              /\ Has(modal.outcome.result, "type") =>
                    proc[p].arg.transaction.type = modal.outcome.result.type
    /\ (\A p \in DOMAIN proc : proc[p].pc = "idle") => dbTransactions = {}
    /\ Cardinality(dbTransactions) <= 1
    /\ modal.pc = "idle" => ~modal.loading

\* C24, its case: "FOOD" parsed as an income was matched to the income
\* category Food, not to the expense category of that name; the row is in the
\* store, handleParse has returned and the modal is closed
C24_Witness ==
    /\ modal.pc = "idle"
    /\ ~modal.visible
    /\ modal.outcome.kind = "result"
    /\ modal.outcome.result \in ParseFull
    /\ modal.outcome.result.category = <<"F", "O", "O", "D">>
    /\ modal.outcome.result.type = "income"
    /\ \E t \in dbTransactions : t.category_id = 3 /\ t.type = "income" /\ t.amount = 23
    /\ proc[1].pc = "done"

\* C24, its case of a refusal: the parser returned a result whose category
\* names no category of its type, and nothing was added
C24_WitnessRefused ==
    /\ modal.pc = "idle"
    /\ modal.visible
    /\ modal.outcome.kind = "result"
    /\ modal.outcome.result \in ParseFull
    /\ modal.outcome.result.amount = 23
    /\ modal.outcome.result.name = Kopi
    /\ modal.outcome.result.category = <<"S", "a", "l", "a", "r", "y">>
    /\ modal.outcome.result.type = "expense"
    /\ dbTransactions = {}

-----------------------------------------------------------------------------
(* AddTransactionScreen (src/app/add-transaction.tsx): the form              *)

Digits == {"0", "1", "2", "3", "4", "5", "6", "7", "8", "9"}

DigitValue ==
    [c \in Digits |->
        CASE c = "0" -> 0 [] c = "1" -> 1 [] c = "2" -> 2 [] c = "3" -> 3 [] c = "4" -> 4
          [] c = "5" -> 5 [] c = "6" -> 6 [] c = "7" -> 7 [] c = "8" -> 8 [] c = "9" -> 9]

\* not a number
NaN == "NaN"

\* amount.replace(/[^0-9.]/g, '')
StripNonNumeric(s) == SelectSeq(s, LAMBDA c : c \in Digits \cup {"."})

\* the value of a text of digits
RECURSIVE DecimalValue(_)
DecimalValue(s) ==
    IF s = <<>> THEN 0
    ELSE 10 * DecimalValue(SubSeq(s, 1, Len(s) - 1)) + DigitValue[s[Len(s)]]

\* the digits a text starts with
RECURSIVE LeadingDigits(_)
LeadingDigits(s) ==
    IF s # <<>> /\ Head(s) \in Digits THEN <<Head(s)>> \o LeadingDigits(Tail(s)) ELSE <<>>

\* parseFloat of a text without a fraction: the number its leading digits
\* spell, NaN when it does not start with a digit
ParseFloat(s) ==
    IF LeadingDigits(s) = <<>> THEN NaN ELSE DecimalValue(LeadingDigits(s))

\* selectedCategory === null; !selectedCategory holds of null and of 0, and no
\* row has the id 0
NoCategory == 0

\* the screen as its first render is committed, on a day of the clock's month
\* and at an hour of that day.  mountEffect tells that the effects of the
\* mount are to run, typeEffect that the effect of [transactionType] is to run
\* after the render committed last.  sheetShown and sheetCategories are the
\* action sheet of handleCategoryPress and the filteredCategories its callback
\* has captured; backs counts the calls of router.back(); submitting holds
\* the callers of the handleSubmit calls that await addExpense.
ScreenMounted(day, hour) ==
    [mounted |-> TRUE, amount |-> <<>>, selectedCategory |-> NoCategory,
     date |-> NewDate(day, hour), expenseName |-> <<>>, showDatePicker |-> FALSE,
     tempDate |-> NewDate(day, hour), loading |-> FALSE, transactionType |-> "expense",
     mountEffect |-> TRUE, typeEffect |-> FALSE,
     sheetShown |-> FALSE, sheetCategories |-> <<>>, backs |-> 0,
     submitting |-> {}, wheels |-> <<now[1], now[2] - 1>>]

\* router.back() on the screen s: the screen is taken off the navigation
\* stack and unmounted, the values of its hooks are discarded; a handleSubmit
\* that awaits addExpense stays pending
ScreenLeft(s) ==
    [mounted |-> FALSE, submitting |-> s.submitting, backs |-> s.backs + 1]

\* the screen in use: the effects of the mount have run
ScreenInUse(day, hour) == [ScreenMounted(day, hour) EXCEPT !.mountEffect = FALSE]

\* categories.filter(c => c.category_type === transactionType
\*                        || (!c.category_type && transactionType === 'expense'))
FilteredCategories(cats, transactionType) ==
    SelectSeq(cats, LAMBDA c :
        \/ c.category_type = transactionType
        \/ c.category_type = NULL /\ transactionType = "expense")

\* t('home.noNote')
NoNote == <<"-">>

\* !( !amount || amount === '' || !selectedCategory )
Submits(amount, selectedCategory) ==
    amount # <<>> /\ selectedCategory # NoCategory

\* the transaction handed to addExpense
SubmittedTransaction(s, zone) ==
    [amount      |-> ParseFloat(StripNonNumeric(s.amount)),
     category_id |-> s.selectedCategory,
     date        |-> ToISOString(s.date, zone),
     note        |-> IF s.expenseName # <<>> THEN s.expenseName ELSE NoNote,
     type        |-> s.transactionType]

\* onChangeText={setAmount}
SetAmount(text) ==
    /\ screen.mounted
    /\ screen' = [screen EXCEPT !.amount = text]
    /\ UNCHANGED <<dbVars, memVars, isLoading, now, proc, calls, lastSummary, modal>>

\* onChangeText={setExpenseName}
SetExpenseName(text) ==
    /\ screen.mounted
    /\ screen' = [screen EXCEPT !.expenseName = text]
    /\ UNCHANGED <<dbVars, memVars, isLoading, now, proc, calls, lastSummary, modal>>

\* a type tab: setTransactionType(type); when the type changes the screen
\* renders again and the effect of [transactionType] is to run
PressType(type) ==
    /\ screen.mounted
    /\ screen' = [screen EXCEPT !.transactionType = type,
                                !.typeEffect = @ \/ type # screen.transactionType]
    /\ UNCHANGED <<dbVars, memVars, isLoading, now, proc, calls, lastSummary, modal>>

\* the effects of the mount, run in one pass after the first render has been
\* committed: fetchCategories(db), which runs up to its await, and
\* setSelectedCategory(null); the handlers of that render can be called
\* before them
MountEffects(p) ==
    /\ screen.mounted
    /\ screen.mountEffect
    /\ EnterFetchCategories(p)
    /\ screen' = [screen EXCEPT !.mountEffect = FALSE, !.selectedCategory = NoCategory]
    /\ UNCHANGED <<dbVars, memVars, isLoading, now, modal>>

\* useEffect(() => { setSelectedCategory(null) }, [transactionType]), run after
\* the render that followed the change of the type has been committed, and
\* after the effects of the renders before it; the handlers of that render
\* can be called before it
ResetCategoryEffect ==
    /\ screen.mounted
    /\ ~screen.mountEffect
    /\ screen.typeEffect
    /\ screen' = [screen EXCEPT !.selectedCategory = NoCategory, !.typeEffect = FALSE]
    /\ UNCHANGED <<dbVars, memVars, isLoading, now, proc, calls, lastSummary, modal>>

\* the category field: showActionSheetWithOptions(...) with one option for
\* each of the filteredCategories of the render and the cancel option last;
\* the handler returns, and the callback keeps the filteredCategories of the
\* press.  One sheet is shown at a time.
handleCategoryPress ==
    /\ screen.mounted
    /\ ~screen.sheetShown
    /\ screen' = [screen EXCEPT
                    !.sheetShown = TRUE,
                    !.sheetCategories = FilteredCategories(categories, screen.transactionType)]
    /\ UNCHANGED <<dbVars, memVars, isLoading, now, proc, calls, lastSummary, modal>>

\* selectedIndex === undefined
Undefined == -1

\* the callback of the action sheet, called with the index of the chosen
\* option, from 0, or with undefined:
\* if (selectedIndex !== undefined && selectedIndex !== cancelButtonIndex)
\*     setSelectedCategory(filteredCategories[selectedIndex].id)
\* (on a screen that was left the setter has nothing to set)
SheetCallback(selectedIndex) ==
    LET filteredCategories == screen.sheetCategories
        cancelButtonIndex  == Len(filteredCategories)
    IN  /\ screen.mounted
        /\ screen.sheetShown
        /\ selectedIndex \in (0..cancelButtonIndex) \cup {Undefined}
        /\ screen' = [screen EXCEPT
                        !.sheetShown = FALSE,
                        !.sheetCategories = <<>>,
                        !.selectedCategory =
                            IF selectedIndex # Undefined /\ selectedIndex # cancelButtonIndex
                            THEN filteredCategories[selectedIndex + 1].id
                            ELSE @]
        /\ UNCHANGED <<dbVars, memVars, isLoading, now, proc, calls, lastSummary, modal>>

\* the back button of the header: router.back(), the screen is left
PressBack ==
    /\ screen.mounted
    /\ screen' = ScreenLeft(screen)
    /\ UNCHANGED <<dbVars, memVars, isLoading, now, proc, calls, lastSummary, modal>>

\* the cancel button of the header: setAmount('0'); setExpenseName('');
\* setSelectedCategory(null)
PressCancel ==
    /\ screen.mounted
    /\ screen' = [screen EXCEPT !.amount = <<"0">>, !.expenseName = <<>>,
                                !.selectedCategory = NoCategory]
    /\ UNCHANGED <<dbVars, memVars, isLoading, now, proc, calls, lastSummary, modal>>

\* the callers of the fetchCategories of the mount
MountCallers == {1}

\* the form is used on the last day of June, early in the morning, on a
\* device set to UTC+7: the day in UTC is the day before
FormDays == {30}
FormHours == {3}
FormZones == {7}

\* texts typed into the amount field of the form, which is empty at the mount
FormAmounts == {<<"0">>, <<"2", ",", "3">>}

\* the option of the action sheet that is chosen: the first, the second, none
SheetIndexes == {0, 1, Undefined}

\* the save button: handleSubmit up to the await of addExpense, which runs
\* addTransaction up to its first await; a caller submits once in a run
PressSave(p) ==
    /\ screen.mounted
    /\ proc[p].pc = "idle"
    /\ IF Submits(screen.amount, screen.selectedCategory)
       THEN \E zone \in FormZones :
            /\ EnterAddExpense(p, SubmittedTransaction(screen, zone))
            /\ screen' = [screen EXCEPT !.loading = TRUE, !.submitting = @ \cup {p}]
       ELSE UNCHANGED <<isLoading, proc, calls, lastSummary, screen>>
    /\ UNCHANGED <<dbVars, memVars, now, modal>>

\* await addExpense(...) resumes: router.back(), or the catch; finally
\* setLoading(false).  router.back() is called also when the screen was left
\* in the meantime, and setLoading then has nothing to set.
AwaitAddExpenseOfScreen(p) ==
    /\ p \in screen.submitting
    /\ proc[p].pc = "done"
    /\ screen' =
            IF proc[p].rejected
            THEN IF screen.mounted
                 THEN [screen EXCEPT !.loading = FALSE, !.submitting = @ \ {p}]
                 ELSE [screen EXCEPT !.submitting = @ \ {p}]
            ELSE ScreenLeft([screen EXCEPT !.submitting = @ \ {p}])
    /\ UNCHANGED <<dbVars, memVars, isLoading, now, proc, calls, lastSummary, modal>>

-----------------------------------------------------------------------------
(* AddTransactionScreen: the date picker.  The history field wheels is the   *)
(* <<year, month>> that the year and month wheels were last turned to.       *)

\* program constant: START_YEAR, the first entry of YEARS
START_YEAR == 2020

\* Math.min
Min(a, b) == IF a < b THEN a ELSE b

\* the wheel positions of the model: the first and the last days of a month,
\* January, February, April and December, 2023 and 2024
DayIndexes == {0, 27, 28, 29, 30}
MonthIndexes == {0, 1, 3, 11}
YearIndexes == {3, 4}

\* a slip of the month wheel: the month is set while the day is still the old one
MonthPickedNoReset(d, newMonth) ==
    SetDate(SetMonth(d, newMonth), Min(d[3], getDaysInMonth(newMonth, d[1])))

\* the month wheel: maxDays = getDaysInMonth(newMonth, d.getFullYear());
\* d.setDate(1); d.setMonth(newMonth); d.setDate(Math.min(currentDay, maxDays))
MonthPicked(d, newMonth) ==
    LET maxDays == getDaysInMonth(newMonth, d[1])
        currentDay == d[3]
    IN  SetDate(SetMonth(SetDate(d, 1), newMonth), Min(currentDay, maxDays))

\* the year wheel: maxDays = getDaysInMonth(currentMonth, newYear);
\* d.setDate(1); d.setFullYear(newYear); d.setDate(Math.min(currentDay, maxDays))
YearPicked(d, newYear) ==
    LET maxDays == getDaysInMonth(d[2], newYear)
        currentDay == d[3]
    IN  SetDate(SetFullYear(SetDate(d, 1), newYear), Min(currentDay, maxDays))

\* the date pill: setTempDate(date); setShowDatePicker(true)
OpenDatePicker ==
    /\ screen.mounted
    /\ ~screen.showDatePicker
    /\ screen' = [screen EXCEPT !.tempDate = screen.date, !.showDatePicker = TRUE,
                                !.wheels = <<screen.date[1], screen.date[2]>>]
    /\ UNCHANGED <<dbVars, memVars, isLoading, now, proc, calls, lastSummary, modal>>

\* the day wheel, which lists the days of tempDate's month: d.setDate(i + 1)
PickDay(i) ==
    /\ screen.mounted
    /\ screen.showDatePicker
    /\ i < getDaysInMonth(screen.tempDate[2], screen.tempDate[1])
    /\ screen' = [screen EXCEPT !.tempDate = SetDate(screen.tempDate, i + 1)]
    /\ UNCHANGED <<dbVars, memVars, isLoading, now, proc, calls, lastSummary, modal>>

\* the month wheel
PickMonth(i) ==
    /\ screen.mounted
    /\ screen.showDatePicker
    /\ screen' = [screen EXCEPT !.tempDate = MonthPicked(screen.tempDate, i),
                                !.wheels = <<@[1], i>>]
    /\ UNCHANGED <<dbVars, memVars, isLoading, now, proc, calls, lastSummary, modal>>

\* the year wheel, which lists YEARS: newYear = START_YEAR + i
PickYear(i) ==
    /\ screen.mounted
    /\ screen.showDatePicker
    /\ screen' = [screen EXCEPT !.tempDate = YearPicked(screen.tempDate, START_YEAR + i),
                                !.wheels = <<START_YEAR + i, @[2]>>]
    /\ UNCHANGED <<dbVars, memVars, isLoading, now, proc, calls, lastSummary, modal>>

\* the picker's save button: setDate(tempDate); setShowDatePicker(false)
SaveDate ==
    /\ screen.mounted
    /\ screen.showDatePicker
    /\ screen' = [screen EXCEPT !.date = screen.tempDate, !.showDatePicker = FALSE]
    /\ UNCHANGED <<dbVars, memVars, isLoading, now, proc, calls, lastSummary, modal>>

\* the picker's cancel button and onRequestClose: setShowDatePicker(false)
CancelDatePicker ==
    /\ screen.mounted
    /\ screen.showDatePicker
    /\ screen' = [screen EXCEPT !.showDatePicker = FALSE]
    /\ UNCHANGED <<dbVars, memVars, isLoading, now, proc, calls, lastSummary, modal>>

-----------------------------------------------------------------------------
(* AddTransactionScreen: the whole screen *)

\* positions of the wheels turned on the form: the first day of a month,
\* February, a year that is not a leap year
FormDayIndexes == {0}
FormMonthIndexes == {1}
FormYearIndexes == {3}

\* a bound of the form: a wheel is turned while the date of the form and the
\* temporary date are the date of the mount
WheelsUnturned ==
    /\ screen.mounted
    /\ screen.tempDate = screen.date
    /\ \E day \in FormDays, hour \in FormHours : screen.date = NewDate(day, hour)

\* the application as the screen's first render is committed: the cache of
\* the store is empty, the effects of the mount are to run
InitAddScreen ==
    /\ dbCategories = SeedCategories
    /\ dbTransactions = {}
    /\ dbSplitBills = {}
    /\ dbSplitBillMembers = {}
    /\ nextId = [categories |-> Cardinality(SeedCategories) + 1,
                 transactions |-> 1,
                 split_bills |-> 1,
                 split_bill_members |-> 1]
    /\ transactions = <<>>
    /\ categories = <<>>
    /\ splitBills = <<>>
    /\ balance = 0
    /\ totalMonth = 0
    /\ totalIncome = 0
    /\ totalExpense = 0
    /\ isLoading = FALSE
    /\ now = June
    /\ proc = [p \in {1, 2} |-> Idle]
    /\ calls = 0
    /\ lastSummary = <<>>
    /\ modal = NotShown
    /\ \E day \in FormDays, hour \in FormHours : screen = ScreenMounted(day, hour)

NextAddScreen ==
    \/ \E text \in FormAmounts : SetAmount(text)
    \/ \E text \in {<<>>, Kopi} : SetExpenseName(text)
    \/ \E type \in {"expense", "income"} : PressType(type)
    \/ \E p \in MountCallers : MountEffects(p)
    \/ ResetCategoryEffect
    \/ handleCategoryPress
    \/ \E selectedIndex \in SheetIndexes : SheetCallback(selectedIndex)
    \/ PressCancel
    \/ PressBack
    \/ OpenDatePicker
    \/ \E i \in FormDayIndexes : WheelsUnturned /\ PickDay(i)
    \/ \E i \in FormMonthIndexes : WheelsUnturned /\ PickMonth(i)
    \/ \E i \in FormYearIndexes : WheelsUnturned /\ PickYear(i)
    \/ SaveDate
    \/ CancelDatePicker
    \/ \E p \in DOMAIN proc : PressSave(p)
    \/ \E p \in DOMAIN proc : AwaitAddExpenseOfScreen(p)
    \/ \E p \in DOMAIN proc : AwaitSelectCategories(p)
    \/ \E p \in DOMAIN proc : AwaitInsertTransaction(p)
    \/ \E p \in DOMAIN proc : AwaitSelectRecent(p)
    \/ \E p \in DOMAIN proc : AwaitSelectExpense(p)
    \/ \E p \in DOMAIN proc : AwaitSelectIncome(p)
    \/ \E p \in DOMAIN proc : AwaitSelectBreakdown(p)
    \/ \E p \in DOMAIN proc : ResumeAfterFetchRecent(p)
    \/ \E p \in DOMAIN proc : ResumeAfterSummary(p)

SpecAddScreen == InitAddScreen /\ [][NextAddScreen]_vars

\* C25: every transaction that handleSubmit passes to addExpense has an
\* amount above zero and a category whose type is the type selected on the
\* screen; and handleSubmit calls nothing while the amount is empty or no
\* category is selected, as after the cancel button has reset the form.
C25_SubmitPassesPositiveAmount ==
    /\ [](\A p \in DOMAIN proc :
            ViaAlias(p) =>
                /\ proc[p].arg.transaction.amount > 0
                /\ \E i \in 1..Len(categories) :
                      /\ categories[i].id = proc[p].arg.transaction.category_id
                      /\ categories[i].category_type = proc[p].arg.transaction.type)
    /\ [][\A p \in DOMAIN proc :
            (/\ screen.mounted
             /\ screen.amount = <<>> \/ screen.selectedCategory = NoCategory
             /\ proc[p].pc = "idle") => ~Has(proc'[p].arg, "alias")]_vars

-----------------------------------------------------------------------------
(* AddTransactionScreen: the date picker alone *)

\* the screen in use, mounted on a day of the clock's month; the categories
\* were fetched by the effect of the mount
InitDatePicker ==
    /\ dbCategories = SeedCategories
    /\ dbTransactions = {}
    /\ dbSplitBills = {}
    /\ dbSplitBillMembers = {}
    /\ nextId = [categories |-> Cardinality(SeedCategories) + 1,
                 transactions |-> 1,
                 split_bills |-> 1,
                 split_bill_members |-> 1]
    /\ transactions = <<>>
    /\ categories = SelectCategories(SeedCategories)
    /\ splitBills = <<>>
    /\ balance = 0
    /\ totalMonth = 0
    /\ totalIncome = 0
    /\ totalExpense = 0
    /\ isLoading = FALSE
    /\ now = June
    /\ proc = [p \in {1} |-> Idle]
    /\ calls = 0
    /\ lastSummary = <<>>
    /\ modal = NotShown
    /\ \E day \in ClockDays, hour \in ClockHours : screen = ScreenInUse(day, hour)

NextDatePicker ==
    \/ OpenDatePicker
    \/ \E i \in DayIndexes : PickDay(i)
    \/ \E i \in MonthIndexes : PickMonth(i)
    \/ \E i \in YearIndexes : PickYear(i)
    \/ SaveDate
    \/ CancelDatePicker

SpecDatePicker == InitDatePicker /\ [][NextDatePicker]_vars

\* a calendar date: a month from 0 to 11 and a day of that month
IsCalendarDate(d) ==
    /\ Len(d) = 4
    /\ d[4] \in 0..23
    /\ d[2] \in 0..11
    /\ d[3] >= 1
    /\ d[3] <= LastDayOf(d[2], d[1])

\* C27: while the date picker is shown the temporary date is a calendar date
\* in the year and month that the wheels were last turned to; and turning
\* the month or the year wheel sets the day to the smaller of the day before
\* and the number of days of the month now chosen.
C27_TempDateStaysInChosenMonth ==
    /\ [](screen.showDatePicker =>
            /\ IsCalendarDate(screen.tempDate)
            /\ screen.tempDate[1] = screen.wheels[1]
            /\ screen.tempDate[2] = screen.wheels[2])
    /\ [][(screen.showDatePicker /\ screen'.showDatePicker
           /\ screen'.wheels # screen.wheels) =>
            screen'.tempDate[3] =
                Min(screen.tempDate[3], LastDayOf(screen'.wheels[2], screen'.wheels[1]))]_vars

\* C27, its case: from 31 December 2024 the month wheel was turned to
\* February and the temporary date is 29 February 2024
C27_Witness ==
    /\ screen.showDatePicker
    /\ screen.wheels = <<2024, 1>>
    /\ SubSeq(screen.tempDate, 1, 3) = <<2024, 1, 29>>
    /\ SubSeq(screen.date, 1, 3) = <<2024, 11, 31>>

-----------------------------------------------------------------------------
(* Overlapping callers of every store action, with database calls that       *)
(* return or fail: a statement that is awaited is eventually settled.        *)

\* the transaction added by the callers
LiveTransaction ==
    [category_id |-> 1, amount |-> 23, date |-> <<2024, 6, 15, 8>>, note |-> "lunch"]

\* the category added by the callers
LiveCategory == [name |-> "Pets", icon |-> "emoji:P", color |-> "#00f"]

\* the await at which the action of p is suspended is settled, and the action
\* resumes
Settle(p) ==
    \/ AwaitSelectCategories(p)
    \/ AwaitInsertCategory(p)
    \/ AwaitUpdateCategory(p)
    \/ AwaitDeleteCategoryTransactions(p)
    \/ AwaitDeleteCategoryRow(p)
    \/ AwaitInsertTransaction(p)
    \/ AwaitSelectRecent(p)
    \/ AwaitDeleteTransaction(p)
    \/ AwaitSelectExpense(p)
    \/ AwaitSelectIncome(p)
    \/ AwaitSelectBreakdown(p)
    \/ AwaitSelectSplitBills(p)
    \/ AwaitInsertSplitBill(p)
    \/ AwaitInsertMember(p)
    \/ AwaitDeleteSplitBill(p)
    \/ ResumeAfterFetchCategories(p)
    \/ ResumeAfterFetchRecent(p)
    \/ ResumeAfterSummary(p)
    \/ ResumeAfterFetchSplitBills(p)

NextLive ==
    \/ \E p \in DOMAIN proc : FirstCall(p) /\ CallFetchCategories(p)
    \/ \E p \in DOMAIN proc : FirstCall(p) /\ CallAddCategory(p, LiveCategory)
    \/ \E p \in DOMAIN proc : \E category \in CategoryPartials :
            FirstCall(p) /\ CallUpdateCategory(p, 1, category)
    \/ \E p \in DOMAIN proc : FirstCall(p) /\ CallDeleteCategory(p, 1)
    \/ \E p \in DOMAIN proc : FirstCall(p) /\ CallAddTransaction(p, LiveTransaction)
    \/ \E p \in DOMAIN proc : FirstCall(p) /\ CallFetchRecentTransactions(p)
    \/ \E p \in DOMAIN proc : FirstCall(p) /\ CallDeleteTransaction(p, 1)
    \/ \E p \in DOMAIN proc : FirstCall(p) /\ CallCalculateMonthSummary(p, <<>>)
    \/ \E p \in DOMAIN proc : FirstCall(p) /\ CallFetchSplitBills(p)
    \/ \E p \in DOMAIN proc : FirstCall(p) /\ CallAddSplitBill(p, BillInput, <<MemberMe, MemberBob>>)
    \/ \E p \in DOMAIN proc : \E id \in BillIds : FirstCall(p) /\ CallDeleteSplitBill(p, id)
    \/ \E p \in DOMAIN proc : AwaitSelectCategories(p)
    \/ \E p \in DOMAIN proc : AwaitInsertCategory(p)
    \/ \E p \in DOMAIN proc : AwaitUpdateCategory(p)
    \/ \E p \in DOMAIN proc : AwaitDeleteCategoryTransactions(p)
    \/ \E p \in DOMAIN proc : AwaitDeleteCategoryRow(p)
    \/ \E p \in DOMAIN proc : AwaitInsertTransaction(p)
    \/ \E p \in DOMAIN proc : AwaitSelectRecent(p)
    \/ \E p \in DOMAIN proc : AwaitDeleteTransaction(p)
    \/ \E p \in DOMAIN proc : AwaitSelectExpense(p)
    \/ \E p \in DOMAIN proc : AwaitSelectIncome(p)
    \/ \E p \in DOMAIN proc : AwaitSelectBreakdown(p)
    \/ \E p \in DOMAIN proc : AwaitSelectSplitBills(p)
    \/ \E p \in DOMAIN proc : AwaitInsertSplitBill(p)
    \/ \E p \in DOMAIN proc : AwaitInsertMember(p)
    \/ \E p \in DOMAIN proc : AwaitDeleteSplitBill(p)
    \/ \E p \in DOMAIN proc : ResumeAfterFetchCategories(p)
    \/ \E p \in DOMAIN proc : ResumeAfterFetchRecent(p)
    \/ \E p \in DOMAIN proc : ResumeAfterSummary(p)
    \/ \E p \in DOMAIN proc : ResumeAfterFetchSplitBills(p)

\* every database call eventually returns or fails
SpecLive ==
    InitOverlap /\ [][NextLive]_vars /\ \A p \in Callers : WF_vars(Settle(p))

\* C26: provided every database call eventually returns or fails, every
\* store action that is in flight eventually completes, and whenever
\* isLoading is true it eventually is false again, however the actions of the
\* callers interleave.
C26_ActionsCompleteAndBusyClears ==
    /\ \A p \in Callers : InFlight(p) ~> ~InFlight(p)
    /\ isLoading ~> ~isLoading

\* C26, its case: an addTransaction and an addSplitBill of two members have
\* overlapped and both have completed, and isLoading is false again
C26_Witness ==
    \E p, q \in DOMAIN proc :
        /\ proc[p].op = "addTransaction" /\ Done(p) /\ Clean(p)
        /\ proc[q].op = "addSplitBill" /\ Done(q) /\ Clean(q)
        /\ proc[q].pre.transactions = <<>>
        /\ proc[p].pre.splitBills = <<>>
        /\ Cardinality(dbSplitBillMembers) = 2
        /\ Len(transactions) = 3
        /\ Len(splitBills) = 1
        /\ ~isLoading

====
